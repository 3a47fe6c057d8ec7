----------------------------- MODULE AuthProofs ------------------------------
(***************************************************************************)
(* Theorems about AuthTokens, for every value of its constants.            *)
(***************************************************************************)
EXTENDS AuthTokens, TLAPS

-----------------------------------------------------------------------------
(***************************************************************************)
(* Handlers                                                                *)
(***************************************************************************)

\* Handlers that work on a token of theirs; those of logins, which no one
\* else knows yet; those that revoke
Naming == {"token", "register", "renew", "write"}
Drawing == {"token", "register"}
Revoking == {"revoke", "disable"}

Sound(h) ==
    /\ h.pc \in Drawing => h.entity # None
    /\ h.pc \in Naming => h.token # None
    /\ h.pc \notin Revoking => h.send = {} /\ h.delete = {}

HandlersOK == \A r \in Request : Sound(req[r])

TypeInv == TypeOK /\ HandlersOK

\* What CalculateTtl returns
LEMMA TtlBound ==
    ASSUME NEW now \in Nat, NEW issued_at \in Nat, NEW ttl \in Nat \cup {None}
    PROVE  LET d == CalculateTtl(now, issued_at, Config, ttl)
           IN  d \in Nat /\ (d = 0 \/ now + d <= issued_at + Config.max_lease_ttl)
<1>1. Config.max_lease_ttl \in Nat /\ Config.default_lease_ttl \in Nat
  BY AuthAssumption, ConfigsAssumption DEF MountConfig
<1>2. RequestedTtl(Config, ttl) \in Nat
  BY <1>1, NoneAssumption DEF RequestedTtl
<1> QED
  BY <1>1, <1>2 DEF CalculateTtl

LEMMA IdleType ==
    /\ Idle \in Handler
    /\ Idle.pc = "idle" /\ Idle.send = {} /\ Idle.delete = {}
    /\ Sound(Idle)
BY DEF Idle, Handler, Sound, Drawing, Naming, Revoking

\* How a step of request r changes the requests.
Becomes(r, h) ==
    /\ h \in Handler
    /\ req' \in [Request -> Handler]
    /\ req'[r] = h
    /\ \A q \in Request : q # r => req'[q] = req[q]

LEMMA SetReqEffect ==
    ASSUME TypeInv, NEW r \in Request, NEW h \in Handler, SetReq(r, h)
    PROVE  Becomes(r, h)
BY DEF SetReq, Becomes, TypeInv, TypeOK

LEMMA DoneEffect ==
    ASSUME TypeInv, NEW r \in Request, Done(r)
    PROVE  Becomes(r, Idle)
BY IdleType, SetReqEffect DEF Done

\* Where the handlers go to that keep what they have.
LEMMA GotoEffect ==
    ASSUME TypeInv, NEW r \in Request,
           NEW pc \in {"register", "root_entity", "root_attach", "root_token"}, Goto(r, pc)
    PROVE  \E h \in Handler :
              /\ Becomes(r, h)
              /\ h.pc = pc /\ h.entity = req[r].entity /\ h.token = req[r].token
              /\ h.issued = req[r].issued /\ h.ttl = req[r].ttl
              /\ h.send = req[r].send /\ h.delete = req[r].delete
<1> DEFINE h == [req[r] EXCEPT !.pc = pc]
<1>1. req[r] \in Handler
  BY DEF TypeInv, TypeOK
<1>2. h \in Handler
  BY <1>1 DEF Handler
<1>3. Becomes(r, h)
  BY <1>2, SetReqEffect DEF Goto
<1>4. /\ h.pc = pc /\ h.entity = req[r].entity /\ h.token = req[r].token
      /\ h.issued = req[r].issued /\ h.ttl = req[r].ttl
      /\ h.send = req[r].send /\ h.delete = req[r].delete
  BY <1>1 DEF Handler
<1> HIDE DEF h
<1> QED
  BY <1>2, <1>3, <1>4

-----------------------------------------------------------------------------
(***************************************************************************)
(* What the steps do to tokens, leases and the handlers that work on them  *)
(***************************************************************************)

Quiet(h) == h.pc \notin Naming /\ h.send = {} /\ h.delete = {}

QuietStep ==
    /\ req' \in [Request -> Handler]
    /\ \A r \in Request : req'[r] = req[r] \/ Quiet(req'[r])
    /\ mounted' # mounted => mounted' = TRUE \/ leases = {}
    /\ clock' = clock \/ Tick
    /\ UNCHANGED <<tokens, leases, used, given, revoked, abandoned>>

DrawStep(r) == \E t \in Token \ used, h \in Handler :
    /\ Becomes(r, h)
    /\ h.pc = "token" /\ h.entity # None /\ h.token = t /\ h.send = {} /\ h.delete = {}
    /\ h.issued = clock /\ h.ttl = CalculateTtl(clock, clock, Config, None)
    /\ used' = used \cup {t}
    /\ UNCHANGED <<clock, mounted, tokens, leases, given, revoked, abandoned>>

CreateStep(r) == \E h \in Handler, x \in TokenEntry :
    /\ req[r].pc = "token"
    /\ Becomes(r, h)
    /\ h.pc = "register" /\ h.entity = req[r].entity /\ h.token = req[r].token /\ h.send = {} /\ h.delete = {}
    /\ h.issued = req[r].issued /\ h.ttl = req[r].ttl
    /\ x.id = req[r].token /\ x.issued_at = req[r].issued
    /\ x.expires_at = req[r].issued + req[r].ttl /\ x.expires_at # None
    /\ tokens' = tokens \cup {x}
    /\ UNCHANGED <<clock, mounted, leases, used, given, revoked, abandoned>>

RegisterStep(r) == \E le \in Lease :
    /\ req[r].pc = "register" /\ mounted
    /\ Becomes(r, Idle)
    /\ le.token = req[r].token /\ le.issued_at = req[r].issued
    /\ leases' = leases \cup {le}
    /\ given' = given \cup {req[r].token}
    /\ UNCHANGED <<clock, mounted, tokens, used, revoked, abandoned>>

BeginRenewStep(r) == \E h \in Handler, le \in leases, ttl \in Nat \cup {None} :
    /\ Becomes(r, h)
    /\ h.pc = "renew" /\ h.token = le.token /\ h.send = {} /\ h.delete = {}
    /\ h.issued = le.issued_at /\ h.since = clock
    /\ h.ttl = CalculateTtl(clock, le.issued_at, Config, ttl)
    /\ UNCHANGED <<clock, mounted, tokens, leases, used, given, revoked, abandoned>>

\* UPDATE TOKENS SET expires_at WHERE token = t
RowsRenewed(t, e) ==
    \A y \in tokens' : \E x \in tokens :
        /\ y.id = x.id /\ y.issued_at = x.issued_at /\ y.entity = x.entity
        /\ y = x \/ (x.id = t /\ y.expires_at = e)

RenewStep(r) == \E h \in Handler :
    /\ req[r].pc = "renew"
    /\ Becomes(r, h)
    /\ h.pc = "write" /\ h.token = req[r].token /\ h.send = {} /\ h.delete = {}
    /\ h.issued = req[r].issued
    /\ tokens' \subseteq TokenEntry
    /\ RowsRenewed(req[r].token, clock + req[r].ttl)
    /\ UNCHANGED <<clock, mounted, leases, used, given, revoked, abandoned>>

WriteStep(r) ==
    /\ req[r].pc = "write"
    /\ Becomes(r, Idle)
    /\ leases' \subseteq Lease
    /\ \A y \in leases' : \E x \in leases : y.token = x.token /\ y.issued_at = x.issued_at
    /\ \A x \in leases : \E y \in leases' : y.token = x.token
    /\ UNCHANGED <<clock, mounted, tokens, used, given, revoked, abandoned>>

BeginRevokeStep(r) == \E h \in Handler :
    /\ Becomes(r, h)
    /\ h.pc \in Revoking /\ h.delete = {}
    /\ \A t \in h.send : \E le \in leases : t = le.token
    /\ UNCHANGED <<clock, mounted, tokens, leases, used, given, revoked, abandoned>>

\* The backend's answer to the revocation of t: gone says whether the token is.
RevokeStep(r, t, gone) == \E h \in Handler :
    /\ t \in req[r].send
    /\ Becomes(r, h)
    /\ h.pc = req[r].pc /\ h.pc \in Revoking /\ h.send \subseteq req[r].send
    /\ h.delete = req[r].delete \/ (h.delete = req[r].delete \cup {t} /\ t \in revoked' \cup abandoned')
    /\ tokens' = IF gone THEN {x \in tokens : x.id # t} ELSE tokens
    /\ revoked' = IF gone THEN revoked \cup {t} ELSE revoked
    /\ abandoned' \in {abandoned, abandoned \cup {t}}
    /\ UNCHANGED <<clock, mounted, leases, used, given>>

DeleteStep(r, t) == \E h \in Handler :
    /\ t \in req[r].delete
    /\ Becomes(r, h)
    /\ h.pc = req[r].pc /\ h.pc \in Revoking /\ h.send = req[r].send /\ h.delete \subseteq req[r].delete
    /\ leases' = {x \in leases : x.token # t}
    /\ UNCHANGED <<clock, mounted, tokens, used, given, revoked, abandoned>>

RootStep(r) == \E t \in Token \ used, x \in TokenEntry :
    /\ Becomes(r, Idle)
    /\ x.id = t /\ x.entity = RootEntity /\ x.expires_at = None
    /\ used' = used \cup {t}
    /\ given' = given \cup {t}
    /\ tokens' = tokens \cup {x}
    /\ UNCHANGED <<clock, mounted, leases, revoked, abandoned>>

SessionStep(r) ==
    \/ DrawStep(r) \/ CreateStep(r) \/ RegisterStep(r)
    \/ BeginRenewStep(r) \/ RenewStep(r) \/ WriteStep(r)
    \/ BeginRevokeStep(r)
    \/ \E t \in Token, gone \in BOOLEAN : RevokeStep(r, t, gone)
    \/ \E t \in Token : DeleteStep(r, t)

Step(r) == SessionStep(r) \/ RootStep(r)

LEMMA DrawEffect ==
    ASSUME TypeInv, NEW r \in Request, LookupAlias(r)
    PROVE  DrawStep(r) \/ (Done(r) /\ QuietStep)
<1>1. req[r] \in Handler /\ req[r].pc = "alias" /\ Sound(req[r]) /\ clock \in Nat
  BY DEF TypeInv, TypeOK, HandlersOK, LookupAlias
<1>2. ASSUME NEW x \in aliases, NEW t \in Token \ used,
             used' = used \cup {t}, SetReq(r, Drawn(r, x[2], t))
      PROVE  DrawStep(r)
  <2> DEFINE h == Drawn(r, x[2], t)
  <2>1. x[2] \in Entity /\ x[2] # None
    BY AuthAssumption DEF TypeInv, TypeOK
  <2>2. CalculateTtl(clock, clock, Config, None) \in Nat
    BY <1>1, TtlBound
  <2>3. req[r].send = {} /\ req[r].delete = {}
    BY <1>1 DEF Sound, Revoking
  <2>4. h \in Handler
    BY <1>1, <2>1, <2>2 DEF Drawn, Handler
  <2>5. Becomes(r, h)
    BY <1>2, <2>4, SetReqEffect
  <2>6. /\ h.pc = "token" /\ h.entity # None /\ h.token = t /\ h.send = {} /\ h.delete = {}
        /\ h.issued = clock /\ h.ttl = CalculateTtl(clock, clock, Config, None)
    BY <1>1, <2>1, <2>3 DEF Drawn, Handler
  <2> HIDE DEF h
  <2> QED
    BY <1>2, <2>4, <2>5, <2>6 DEF DrawStep, LookupAlias
<1>3. CASE Done(r) /\ UNCHANGED used
  BY <1>3, DoneEffect, IdleType DEF Becomes, QuietStep, Quiet, Naming, LookupAlias
<1> QED
  BY <1>2, <1>3 DEF LookupAlias

LEMMA CreateEffect ==
    ASSUME TypeInv, NEW r \in Request, CreateToken(r)
    PROVE  CreateStep(r)
<1> DEFINE x == [id |-> req[r].token, entity |-> req[r].entity,
                 issued_at |-> req[r].issued, expires_at |-> req[r].issued + req[r].ttl]
<1>1. req[r] \in Handler /\ req[r].pc = "token" /\ Sound(req[r])
  BY DEF TypeInv, TypeOK, HandlersOK, CreateToken
<1>2. /\ req[r].token \in Token /\ req[r].entity \in Entity
      /\ req[r].send = {} /\ req[r].delete = {}
      /\ req[r].issued \in Nat /\ req[r].issued + req[r].ttl \in Nat
  BY <1>1 DEF Sound, Handler, Drawing, Naming, Revoking
<1>3. /\ x \in TokenEntry
      /\ x.id = req[r].token /\ x.issued_at = req[r].issued
      /\ x.expires_at = req[r].issued + req[r].ttl /\ x.expires_at # None
  BY <1>2, NoneAssumption DEF TokenEntry
<1>4. tokens' = tokens \cup {x}
  BY DEF CreateToken
<1> HIDE DEF x
<1>5. PICK h \in Handler :
          /\ Becomes(r, h)
          /\ h.pc = "register" /\ h.entity = req[r].entity /\ h.token = req[r].token
          /\ h.issued = req[r].issued /\ h.ttl = req[r].ttl
          /\ h.send = req[r].send /\ h.delete = req[r].delete
  BY GotoEffect DEF CreateToken
<1> QED
  BY <1>1, <1>2, <1>3, <1>4, <1>5 DEF CreateStep, CreateToken, history

LEMMA RegisterEffect ==
    ASSUME TypeInv, NEW r \in Request, Register(r)
    PROVE  RegisterStep(r) \/ (Done(r) /\ QuietStep)
<1>1. req[r] \in Handler /\ req[r].pc = "register" /\ Sound(req[r])
  BY DEF TypeInv, TypeOK, HandlersOK, Register
<1>2. /\ NewLease(r) \in Lease
      /\ NewLease(r).token = req[r].token /\ NewLease(r).issued_at = req[r].issued
  BY <1>1 DEF Sound, Handler, Drawing, Naming, NewLease, Lease
<1>3. Becomes(r, Idle)
  BY DoneEffect DEF Register
<1>4. CASE mounted /\ leases' = leases \cup {NewLease(r)} /\ given' = given \cup {req[r].token}
  BY <1>1, <1>2, <1>3, <1>4 DEF RegisterStep, Register
<1>5. CASE UNCHANGED <<leases, given>>
  BY <1>3, <1>5, IdleType DEF Becomes, QuietStep, Quiet, Naming, Register
<1> QED
  BY <1>4, <1>5 DEF Register

LEMMA BeginRenewEffect ==
    ASSUME TypeInv, NEW r \in Request, NEW le \in leases, NEW ttl \in RenewTtls,
           BeginRenew(r, le, ttl)
    PROVE  BeginRenewStep(r)
<1> DEFINE d == CalculateTtl(clock, le.issued_at, Config, ttl)
           h == [Begin("renew") EXCEPT !.token = le.token, !.issued = le.issued_at, !.ttl = d]
<1>1. clock \in Nat /\ le.token \in Token /\ le.issued_at \in Nat /\ ttl \in Nat \cup {None}
  BY AuthAssumption DEF TypeInv, TypeOK, Lease
<1>2. d \in Nat
  BY <1>1, TtlBound
<1>3. SetReq(r, h)
  BY DEF BeginRenew
<1> HIDE DEF d
<1>4. /\ h \in Handler
      /\ h.pc = "renew" /\ h.token = le.token /\ h.send = {} /\ h.delete = {}
      /\ h.issued = le.issued_at /\ h.since = clock /\ h.ttl = d
  BY <1>1, <1>2 DEF Begin, Idle, Handler
<1> HIDE DEF h
<1>5. Becomes(r, h)
  BY <1>3, <1>4, SetReqEffect
<1> QED
  BY <1>1, <1>4, <1>5 DEF BeginRenewStep, BeginRenew, history, d

LEMMA RenewEffect ==
    ASSUME TypeInv, NEW r \in Request, RenewToken(r)
    PROVE  RenewStep(r)
<1> DEFINE d == clock + CalculateTtl(clock, req[r].issued, Config, req[r].ttl)
           h == [req[r] EXCEPT !.pc = "write", !.ttl = d]
           t == req[r].token
           e == clock + req[r].ttl
           new(x) == IF x.id = t THEN [x EXCEPT !.expires_at = e] ELSE x
<1>1. req[r] \in Handler /\ req[r].pc = "renew" /\ Sound(req[r]) /\ clock \in Nat
  BY DEF TypeInv, TypeOK, HandlersOK, RenewToken
<1>2. req[r].issued \in Nat /\ req[r].ttl \in Nat /\ req[r].send = {} /\ req[r].delete = {}
  BY <1>1 DEF Handler, Sound, Revoking
<1>3. d \in Nat /\ e \in Nat
  <2>1. CalculateTtl(clock, req[r].issued, Config, req[r].ttl) \in Nat
    BY <1>1, <1>2, TtlBound
  <2> QED
    BY <1>1, <1>2, <2>1
<1>4. SetReq(r, h)
  BY DEF RenewToken
<1>5. tokens' = {new(x) : x \in tokens}
  BY DEF RenewToken, UpdateToken
<1> HIDE DEF d, e
<1>6. /\ h \in Handler
      /\ h.pc = "write" /\ h.token = t /\ h.send = {} /\ h.delete = {} /\ h.issued = req[r].issued
  BY <1>1, <1>2, <1>3 DEF Handler
<1> HIDE DEF h
<1>7. Becomes(r, h)
  BY <1>4, <1>6, SetReqEffect
<1>8. ASSUME NEW x \in tokens
      PROVE  /\ new(x) \in TokenEntry
             /\ new(x).id = x.id /\ new(x).issued_at = x.issued_at /\ new(x).entity = x.entity
             /\ new(x) = x \/ (x.id = t /\ new(x).expires_at = e)
  BY <1>3 DEF TypeInv, TypeOK, TokenEntry
<1> HIDE DEF new
<1>9. tokens' \subseteq TokenEntry /\ RowsRenewed(t, e)
  BY <1>5, <1>8 DEF RowsRenewed
<1> QED
  BY <1>1, <1>6, <1>7, <1>9 DEF RenewStep, RenewToken, history, e

LEMMA WriteEffect ==
    ASSUME TypeInv, NEW r \in Request, WriteLease(r)
    PROVE  WriteStep(r)
<1> DEFINE new(x) == IF x.token = req[r].token THEN [x EXCEPT !.expires_at = req[r].ttl] ELSE x
<1>1. req[r].ttl \in Nat
  BY DEF TypeInv, TypeOK, Handler
<1>2. ASSUME NEW x \in leases
      PROVE  new(x) \in Lease /\ new(x).token = x.token /\ new(x).issued_at = x.issued_at
  BY <1>1 DEF TypeInv, TypeOK, Lease
<1>3. leases' = {new(x) : x \in leases}
  BY DEF WriteLease
<1> HIDE DEF new
<1>4. /\ leases' \subseteq Lease
      /\ \A y \in leases' : \E x \in leases : y.token = x.token /\ y.issued_at = x.issued_at
      /\ \A x \in leases : \E y \in leases' : y.token = x.token
  BY <1>2, <1>3
<1> QED
  BY <1>4, DoneEffect DEF WriteStep, WriteLease, history

LEMMA BeginRevokeEffect ==
    ASSUME TypeInv, NEW r \in Request,
           BeginDisable(r) \/ \E le \in leases : BeginRevoke(r, le)
    PROVE  BeginRevokeStep(r)
<1>0. clock \in Nat
  BY DEF TypeInv, TypeOK
<1>1. \A le \in leases : le.token \in Token
  BY DEF TypeInv, TypeOK, Lease
<1>2. CASE BeginDisable(r)
  <2> DEFINE S == {x.token : x \in leases}
         h == [Begin("disable") EXCEPT !.send = S]
  <2>1. SetReq(r, h)
    BY <1>2 DEF BeginDisable
  <2>2. S \in SUBSET Token /\ \A t \in S : \E le \in leases : t = le.token
    BY <1>1
  <2> HIDE DEF S
  <2>3. h \in Handler /\ h.pc = "disable" /\ h.send = S /\ h.delete = {}
    BY <1>0, <2>2 DEF Begin, Idle, Handler
  <2> HIDE DEF h
  <2>4. UNCHANGED <<clock, mounted, tokens, leases, used, given, revoked, abandoned>>
    BY <1>2 DEF BeginDisable, history
  <2>5. Becomes(r, h)
    BY <2>1, <2>3, SetReqEffect
  <2> QED
    BY <2>2, <2>3, <2>4, <2>5 DEF BeginRevokeStep, Revoking
<1>3. ASSUME NEW le \in leases, BeginRevoke(r, le)
      PROVE  BeginRevokeStep(r)
  <2> DEFINE h == [Begin("revoke") EXCEPT !.send = {le.token}]
  <2>1. SetReq(r, h)
    BY <1>3 DEF BeginRevoke
  <2>2. le.token \in Token
    BY <1>1
  <2>3. h \in Handler /\ h.pc = "revoke" /\ h.send = {le.token} /\ h.delete = {}
    BY <1>0, <2>2 DEF Begin, Idle, Handler
  <2> HIDE DEF h
  <2>4. UNCHANGED <<clock, mounted, tokens, leases, used, given, revoked, abandoned>>
    BY <1>3 DEF BeginRevoke, history
  <2>5. Becomes(r, h)
    BY <2>1, <2>3, SetReqEffect
  <2> QED
    BY <2>3, <2>4, <2>5 DEF BeginRevokeStep, Revoking
<1> QED
  BY <1>2, <1>3

LEMMA RevokeEffect ==
    ASSUME TypeInv, NEW r \in Request, NEW t \in Token, RevokeToken(r, t) \/ RevokeFails(r, t)
    PROVE  \E gone \in BOOLEAN : RevokeStep(r, t, gone)
<1> DEFINE S == req[r].send \ {t}
           D == req[r].delete \cup {t}
           both == [req[r] EXCEPT !.send = S, !.delete = D]
           one == [req[r] EXCEPT !.send = S]
<1>1. req[r] \in Handler /\ req[r].pc \in Revoking
  BY DEF TypeInv, TypeOK, HandlersOK, Sound, RevokeToken, RevokeFails
<1>2. t \in req[r].send /\ S \subseteq req[r].send /\ S \in SUBSET Token /\ D \in SUBSET Token
  BY <1>1 DEF Handler, RevokeToken, RevokeFails
<1>3. /\ both \in Handler /\ both.pc = req[r].pc /\ both.send = S /\ both.delete = D
      /\ one \in Handler /\ one.pc = req[r].pc /\ one.send = S /\ one.delete = req[r].delete
  BY <1>1, <1>2 DEF Handler
<1>4. CASE SetReq(r, both) /\ RevokeToken(r, t)
  <2>1. Becomes(r, both)
    BY <1>3, <1>4, SetReqEffect
  <2>2. /\ tokens' = {x \in tokens : x.id # t}
        /\ revoked' = revoked \cup {t}
        /\ UNCHANGED <<clock, mounted, leases, used, given, abandoned>>
    BY <1>4 DEF RevokeToken
  <2> HIDE DEF S, both, one
  <2>3. RevokeStep(r, t, TRUE)
    BY <1>1, <1>2, <1>3, <2>1, <2>2 DEF RevokeStep
  <2> QED
    BY <2>3
<1>5. CASE SetReq(r, both) /\ RevokeFails(r, t)
           /\ abandoned' = abandoned \cup {t}
  <2>1. Becomes(r, both)
    BY <1>3, <1>5, SetReqEffect
  <2>2. abandoned' = abandoned \cup {t} /\ UNCHANGED <<clock, mounted, tokens, leases, used, given, revoked>>
    BY <1>5 DEF RevokeFails
  <2> HIDE DEF S, both, one
  <2>3. RevokeStep(r, t, FALSE)
    BY <1>1, <1>2, <1>3, <2>1, <2>2 DEF RevokeStep
  <2> QED
    BY <2>3
<1>6. CASE SetReq(r, one) /\ RevokeFails(r, t) /\ UNCHANGED abandoned
  <2>1. Becomes(r, one)
    BY <1>3, <1>6, SetReqEffect
  <2>2. abandoned' = abandoned /\ UNCHANGED <<clock, mounted, tokens, leases, used, given, revoked>>
    BY <1>6 DEF RevokeFails
  <2> HIDE DEF S, both, one
  <2>3. RevokeStep(r, t, FALSE)
    BY <1>1, <1>2, <1>3, <2>1, <2>2 DEF RevokeStep
  <2> QED
    BY <2>3
<1> QED
  BY <1>4, <1>5, <1>6 DEF RevokeToken, RevokeFails

LEMMA DeleteEffect ==
    ASSUME TypeInv, NEW r \in Request, NEW t \in Token, DeleteLease(r, t)
    PROVE  DeleteStep(r, t)
<1> DEFINE D == req[r].delete \ {t}
           h == [req[r] EXCEPT !.delete = D]
<1>1. req[r] \in Handler /\ t \in req[r].delete /\ req[r].pc \in Revoking
  BY DEF TypeInv, TypeOK, HandlersOK, Sound, DeleteLease
<1>2. req[r].send \in SUBSET Token /\ D \in SUBSET Token /\ D \subseteq req[r].delete
  BY <1>1 DEF Handler
<1>3. h \in Handler /\ h.pc = req[r].pc /\ h.send = req[r].send /\ h.delete = D
  BY <1>1, <1>2 DEF Handler
<1>4. SetReq(r, h)
  BY DEF DeleteLease
<1> HIDE DEF D, h
<1>5. Becomes(r, h)
  BY <1>3, <1>4, SetReqEffect
<1>6. /\ leases' = {x \in leases : x.token # t}
      /\ UNCHANGED <<clock, mounted, tokens, used, given, revoked, abandoned>>
  BY DEF DeleteLease, history
<1> QED
  BY <1>1, <1>2, <1>3, <1>5, <1>6 DEF DeleteStep

LEMMA RootEffect ==
    ASSUME TypeInv, NEW r \in Request, CreateRootToken(r)
    PROVE  RootStep(r) \/ (Done(r) /\ QuietStep)
<1>1. Becomes(r, Idle) /\ clock \in Nat
  BY DoneEffect DEF TypeInv, TypeOK, CreateRootToken
<1>2. ASSUME NEW t \in Token \ used, used' = used \cup {t}, given' = given \cup {t},
             tokens' = tokens \cup {[id |-> t, entity |-> RootEntity, issued_at |-> clock,
                                     expires_at |-> None]}
      PROVE  RootStep(r)
  <2> DEFINE x == [id |-> t, entity |-> RootEntity, issued_at |-> clock, expires_at |-> None]
  <2>1. x \in TokenEntry /\ x.id = t /\ x.entity = RootEntity /\ x.expires_at = None
    BY <1>1, AuthAssumption DEF TokenEntry
  <2>2. tokens' = tokens \cup {x}
    BY <1>2
  <2> HIDE DEF x
  <2> QED
    BY <1>1, <1>2, <2>1, <2>2 DEF RootStep, CreateRootToken
<1>3. CASE UNCHANGED <<used, given, tokens>>
  BY <1>1, <1>3, IdleType DEF Becomes, QuietStep, Quiet, Naming, CreateRootToken
<1> QED
  BY <1>2, <1>3 DEF CreateRootToken

LEMMA QuietBecomes ==
    ASSUME TypeInv, NEW r \in Request, NEW h \in Handler, Becomes(r, h), Quiet(h)
    PROVE  /\ req' \in [Request -> Handler]
           /\ \A q \in Request : req'[q] = req[q] \/ Quiet(req'[q])
BY DEF Becomes

LEMMA QuietGoto ==
    ASSUME TypeInv, NEW r \in Request, NEW pc \in {"root_entity", "root_attach", "root_token"},
           req[r].pc \notin Revoking, Goto(r, pc)
    PROVE  /\ req' \in [Request -> Handler]
           /\ \A q \in Request : req'[q] = req[q] \/ Quiet(req'[q])
<1>1. PICK h \in Handler : Becomes(r, h) /\ h.pc = pc /\ h.send = req[r].send /\ h.delete = req[r].delete
  BY GotoEffect
<1>2. req[r].send = {} /\ req[r].delete = {}
  BY DEF TypeInv, HandlersOK, Sound
<1> QED
  BY <1>1, <1>2, QuietBecomes DEF Quiet, Naming

LEMMA QuietRequest ==
    ASSUME TypeInv, NEW r \in Request,
           \/ \E a \in Alias : Login(r, a)
           \/ Revoked(r) \/ DeleteMount(r) \/ BeginRootToken(r)
           \/ CreateRootPolicy(r) \/ CreateRootEntity(r) \/ AttachRootPolicy(r)
           \/ RootQueryFails(r) \/ Cancel(r)
    PROVE  QuietStep
<1> DEFINE Kept == UNCHANGED <<clock, tokens, leases, used, given, revoked, abandoned>>
           Moved == /\ req' \in [Request -> Handler]
                    /\ \A q \in Request : req'[q] = req[q] \/ Quiet(req'[q])
<1>0. clock \in Nat
  BY DEF TypeInv, TypeOK
<1>1. ASSUME Done(r)
      PROVE  Moved
  BY <1>1, DoneEffect, IdleType, QuietBecomes DEF Quiet, Naming
<1>2. ASSUME NEW pc \in {"root_entity", "root_attach", "root_token"}, Goto(r, pc),
             req[r].pc \notin Revoking
      PROVE  Moved
  BY <1>2, QuietGoto
<1>3. ASSUME NEW a \in Alias, Login(r, a)
      PROVE  Moved
  <2> DEFINE h == [Begin("alias") EXCEPT !.alias = a]
  <2>1. SetReq(r, h)
    BY <1>3 DEF Login
  <2>2. h \in Handler /\ h.pc = "alias" /\ h.send = {} /\ h.delete = {}
    BY <1>0 DEF Begin, Idle, Handler
  <2> HIDE DEF h
  <2> QED
    BY <2>1, <2>2, SetReqEffect, QuietBecomes DEF Quiet, Naming
<1>4. CASE BeginRootToken(r)
  <2> DEFINE h == Begin("root_policy")
  <2>1. SetReq(r, h)
    BY <1>4 DEF BeginRootToken
  <2>2. h \in Handler /\ h.pc = "root_policy" /\ h.send = {} /\ h.delete = {}
    BY <1>0 DEF Begin, Idle, Handler
  <2> HIDE DEF h
  <2>3. Moved
    BY <2>1, <2>2, SetReqEffect, QuietBecomes DEF Quiet, Naming
  <2>4. Kept /\ UNCHANGED mounted
    BY <1>4 DEF BeginRootToken, history
  <2> HIDE DEF Moved
  <2> QED
    BY <2>3, <2>4 DEF QuietStep, Moved
<1> HIDE DEF Moved
<1>5. CASE \E a \in Alias : Login(r, a)
  BY <1>3, <1>5 DEF QuietStep, Login, history, Moved
<1>6. CASE Revoked(r) \/ DeleteMount(r) \/ Cancel(r)
  <2>1. Moved
    BY <1>1, <1>6 DEF Revoked, DeleteMount, Cancel
  <2>2. Kept /\ (mounted' # mounted => leases = {})
    BY <1>6 DEF Revoked, DeleteMount, Cancel, history
  <2> QED
    BY <2>1, <2>2 DEF QuietStep, Moved
<1>7. CASE CreateRootPolicy(r) \/ CreateRootEntity(r) \/ AttachRootPolicy(r) \/ RootQueryFails(r)
  <2>1. Moved
    BY <1>2, <1>7 DEF CreateRootPolicy, CreateRootEntity, AttachRootPolicy, RootQueryFails, Revoking
  <2>2. Kept /\ UNCHANGED mounted
    BY <1>7 DEF CreateRootPolicy, CreateRootEntity, AttachRootPolicy, RootQueryFails, history
  <2> QED
    BY <2>1, <2>2 DEF QuietStep, Moved
<1> QED
  BY <1>4, <1>5, <1>6, <1>7

LEMMA QuietOther ==
    ASSUME TypeInv, Administer \/ Tick \/ UNCHANGED vars
    PROVE  QuietStep /\ UNCHANGED req
<1>1. req \in [Request -> Handler]
  BY DEF TypeInv, TypeOK
<1>2. CASE Administer
  BY <1>1, <1>2 DEF Administer, Mount, CreateEntity, CreatePolicy, DeletePolicy, AttachPolicy,
                    RemovePolicy, AttachAlias, RemoveAlias, QuietStep, history
<1>3. CASE Tick \/ UNCHANGED vars
  BY <1>1, <1>3 DEF Tick, vars, QuietStep, history
<1> QED
  BY <1>2, <1>3

LEMMA StepCases ==
    ASSUME TypeInv, [Next]_vars
    PROVE  QuietStep \/ \E r \in Request : Step(r)
<1>1. ASSUME NEW r \in Request, RequestStep(r)
      PROVE  QuietStep \/ Step(r)
  <2>1. CASE LookupAlias(r) \/ CreateToken(r) \/ Register(r)
    BY <2>1, DrawEffect, CreateEffect, RegisterEffect DEF Step, SessionStep
  <2>2. CASE \E le \in leases, ttl \in RenewTtls : BeginRenew(r, le, ttl)
    BY <2>2, BeginRenewEffect DEF Step, SessionStep
  <2>3. CASE RenewToken(r) \/ WriteLease(r)
    BY <2>3, RenewEffect, WriteEffect DEF Step, SessionStep
  <2>4. CASE BeginDisable(r) \/ \E le \in leases : BeginRevoke(r, le)
    BY <2>4, BeginRevokeEffect DEF Step, SessionStep
  <2>5. CASE \E t \in Token : RevokeToken(r, t) \/ RevokeFails(r, t) \/ DeleteLease(r, t)
    <3>1. PICK t \in Token : RevokeToken(r, t) \/ RevokeFails(r, t) \/ DeleteLease(r, t)
      BY <2>5
    <3>2. (\E gone \in BOOLEAN : RevokeStep(r, t, gone)) \/ DeleteStep(r, t)
      BY <3>1, RevokeEffect, DeleteEffect
    <3> QED
      BY <3>2 DEF Step, SessionStep
  <2>6. CASE CreateRootToken(r)
    BY <2>6, RootEffect DEF Step, SessionStep
  <2> QED
    BY <1>1, <2>1, <2>2, <2>3, <2>4, <2>5, <2>6, QuietRequest DEF RequestStep
<1> QED
  BY <1>1, QuietOther DEF Next

-----------------------------------------------------------------------------
(***************************************************************************)
(* Type correctness                                                        *)
(***************************************************************************)

LEMMA TypeInit == Init => TypeInv
<1> SUFFICES ASSUME Init
             PROVE  TypeInv
  OBVIOUS
<1>1. req \in [Request -> Handler] /\ HandlersOK
  BY IdleType DEF Init, HandlersOK
<1>2. aliases = {} /\ attached = {}
  BY DEF Init
<1> QED
  BY <1>1, <1>2 DEF Init, TypeInv, TypeOK

HandlersTyped == req \in [Request -> Handler] /\ HandlersOK

LEMMA BecomesTyped ==
    ASSUME TypeInv, NEW r \in Request, NEW h \in Handler, Becomes(r, h), Sound(h)
    PROVE  HandlersTyped'
BY DEF Becomes, HandlersTyped, TypeInv, HandlersOK

LEMMA StepTyped ==
    ASSUME TypeInv, NEW r \in Request, Step(r)
    PROVE  HandlersTyped'
<1>1. Sound(req[r])
  BY DEF TypeInv, HandlersOK
<1> USE DEF Sound, Drawing, Naming, Revoking
<1>2. CASE DrawStep(r)
  BY <1>2, BecomesTyped, AuthAssumption DEF DrawStep
<1>3. CASE CreateStep(r)
  BY <1>1, <1>3, BecomesTyped DEF CreateStep
<1>4. CASE RegisterStep(r) \/ WriteStep(r) \/ RootStep(r)
  BY <1>4, BecomesTyped, IdleType DEF RegisterStep, WriteStep, RootStep
<1>5. CASE BeginRenewStep(r)
  <2>1. \A le \in leases : le.token # None
    BY AuthAssumption DEF TypeInv, TypeOK, Lease
  <2> QED
    BY <1>5, <2>1, BecomesTyped DEF BeginRenewStep
<1>6. CASE RenewStep(r)
  BY <1>1, <1>6, BecomesTyped DEF RenewStep
<1>7. CASE BeginRevokeStep(r)
  BY <1>7, BecomesTyped DEF BeginRevokeStep
<1>8. CASE \E t \in Token, gone \in BOOLEAN : RevokeStep(r, t, gone)
  BY <1>8, BecomesTyped DEF RevokeStep
<1>9. CASE \E t \in Token : DeleteStep(r, t)
  BY <1>9, BecomesTyped DEF DeleteStep
<1> QED
  BY <1>2, <1>3, <1>4, <1>5, <1>6, <1>7, <1>8, <1>9 DEF Step, SessionStep

SessionTables ==
    /\ tokens \subseteq TokenEntry /\ leases \subseteq Lease
    /\ used \subseteq Token /\ given \subseteq Token
    /\ revoked \subseteq Token /\ abandoned \subseteq Token

LEMMA TablesTyped ==
    ASSUME TypeInv, NEW r \in Request, Step(r)
    PROVE  SessionTables'
<1>1. SessionTables
  BY DEF SessionTables, TypeInv, TypeOK
<1>2. req[r] \in Handler /\ Sound(req[r])
  BY DEF TypeInv, TypeOK, HandlersOK
<1> USE DEF SessionTables
<1>3. CASE DrawStep(r) \/ CreateStep(r) \/ RootStep(r)
  BY <1>1, <1>3 DEF DrawStep, CreateStep, RootStep
<1>4. CASE RegisterStep(r)
  BY <1>1, <1>2, <1>4 DEF RegisterStep, Sound, Naming, Handler
<1>5. CASE BeginRenewStep(r) \/ RenewStep(r) \/ WriteStep(r) \/ BeginRevokeStep(r)
  BY <1>1, <1>5 DEF BeginRenewStep, RenewStep, WriteStep, BeginRevokeStep
<1>6. CASE \E t \in Token, gone \in BOOLEAN : RevokeStep(r, t, gone)
  BY <1>1, <1>6 DEF RevokeStep
<1>7. CASE \E t \in Token : DeleteStep(r, t)
  BY <1>1, <1>7 DEF DeleteStep
<1> QED
  BY <1>3, <1>4, <1>5, <1>6, <1>7 DEF Step, SessionStep

OtherTables ==
    /\ clock \in Nat /\ mounted \in BOOLEAN /\ disturbed \in BOOLEAN /\ faults \in Nat
    /\ entities \subseteq Entity /\ policies \subseteq Policy
    /\ aliases \subseteq Alias \X Entity /\ attached \subseteq Entity \X Policy

LEMMA OthersTyped ==
    ASSUME TypeInv, [Next]_vars
    PROVE  OtherTables'
<1>1. OtherTables
  BY DEF OtherTables, TypeInv, TypeOK
<1> USE AuthAssumption DEF OtherTables, identity, history
<1>2. CASE Administer
  <2>1. CASE Mount \/ (\E e \in Entity : CreateEntity(e))
             \/ (\E p \in Policy : CreatePolicy(p) \/ DeletePolicy(p))
    BY <1>1, <2>1 DEF Mount, CreateEntity, CreatePolicy, DeletePolicy
  <2>2. CASE \E e \in Entity, p \in Policy : AttachPolicy(e, p) \/ RemovePolicy(e, p)
    <3>1. ASSUME NEW e \in Entity, NEW p \in Policy, AttachPolicy(e, p)
          PROVE  OtherTables'
      <4>1. <<e, p>> \in Entity \X Policy
        OBVIOUS
      <4> QED
        BY <1>1, <3>1, <4>1 DEF AttachPolicy
    <3>2. ASSUME NEW e \in Entity, NEW p \in Policy, RemovePolicy(e, p)
          PROVE  OtherTables'
      BY <1>1, <3>2 DEF RemovePolicy
    <3> QED
      BY <2>2, <3>1, <3>2
  <2>3. CASE \E e \in Entity, a \in Alias : AttachAlias(e, a) \/ RemoveAlias(e, a)
    BY <1>1, <2>3 DEF AttachAlias, RemoveAlias
  <2> QED
    BY <1>2, <2>1, <2>2, <2>3 DEF Administer
<1>3. ASSUME NEW r \in Request, RequestStep(r)
      PROVE  OtherTables'
  <2>1. CASE \/ \E a \in Alias : Login(r, a)
             \/ LookupAlias(r) \/ CreateToken(r) \/ Register(r)
             \/ \E le \in leases, ttl \in RenewTtls : BeginRenew(r, le, ttl)
             \/ RenewToken(r) \/ WriteLease(r)
    BY <1>1, <2>1 DEF Login, LookupAlias, CreateToken, Register, BeginRenew, RenewToken, WriteLease
  <2>2. CASE \/ \E le \in leases : BeginRevoke(r, le)
             \/ BeginDisable(r) \/ Revoked(r) \/ DeleteMount(r)
             \/ \E t \in Token : RevokeToken(r, t) \/ RevokeFails(r, t) \/ DeleteLease(r, t)
    <3>1. CASE (\E le \in leases : BeginRevoke(r, le)) \/ BeginDisable(r) \/ Revoked(r)
      BY <1>1, <3>1 DEF BeginRevoke, BeginDisable, Revoked
    <3>2. CASE DeleteMount(r)
      BY <1>1, <3>2 DEF DeleteMount
    <3>3. CASE \E t \in Token : RevokeToken(r, t) \/ DeleteLease(r, t)
      BY <1>1, <3>3 DEF RevokeToken, DeleteLease
    <3>4. CASE \E t \in Token : RevokeFails(r, t)
      BY <1>1, <3>4 DEF RevokeFails
    <3> QED
      BY <2>2, <3>1, <3>2, <3>3, <3>4
  <2>3. CASE BeginRootToken(r) \/ CreateRootPolicy(r) \/ CreateRootEntity(r)
    <3>1. /\ UNCHANGED <<clock, mounted, aliases, attached, disturbed, faults>>
          /\ policies' \in {policies, policies \cup {RootPolicy}}
          /\ entities' \in {entities, entities \cup {RootEntity}}
      BY <2>3 DEF BeginRootToken, CreateRootPolicy, CreateRootEntity
    <3> QED
      BY <1>1, <3>1
  <2>4. CASE AttachRootPolicy(r)
    <3>1. <<RootEntity, RootPolicy>> \in Entity \X Policy
      OBVIOUS
    <3>2. attached' \subseteq Entity \X Policy
      BY <1>1, <2>4, <3>1 DEF AttachRootPolicy
    <3> QED
      BY <1>1, <2>4, <3>2 DEF AttachRootPolicy
  <2>5. CASE RootQueryFails(r) \/ CreateRootToken(r) \/ Cancel(r)
    <3>1. /\ UNCHANGED <<clock, mounted, entities, policies, aliases, attached>>
          /\ disturbed' = disturbed \/ disturbed' = TRUE
          /\ faults' = faults \/ faults' = faults + 1
      BY <2>5 DEF RootQueryFails, CreateRootToken, Cancel
    <3>2. disturbed' \in BOOLEAN
      BY <1>1, <3>1, Zenon
    <3>3. faults' \in Nat
      BY <1>1, <3>1
    <3> QED
      BY <1>1, <3>1, <3>2, <3>3
  <2> QED
    BY <1>3, <2>1, <2>2, <2>3, <2>4, <2>5 DEF RequestStep
<1>4. CASE Tick \/ UNCHANGED vars
  BY <1>1, <1>4 DEF Tick, vars
<1> QED
  BY <1>2, <1>3, <1>4 DEF Next

LEMMA TypeStep == TypeInv /\ [Next]_vars => TypeInv'
<1> SUFFICES ASSUME TypeInv, [Next]_vars
             PROVE  TypeInv'
  OBVIOUS
<1>1. OtherTables'
  BY OthersTyped
<1>2. HandlersTyped' /\ SessionTables'
  <2>1. CASE QuietStep
    <3>1. HandlersTyped'
      BY <2>1 DEF QuietStep, Quiet, HandlersTyped, TypeInv, HandlersOK, Sound, Drawing, Naming
    <3> QED
      BY <2>1, <3>1 DEF QuietStep, SessionTables, TypeInv, TypeOK
  <2> QED
    BY <2>1, StepCases, StepTyped, TablesTyped
<1> QED
  BY <1>1, <1>2 DEF TypeInv, TypeOK, OtherTables, HandlersTyped, SessionTables

\* Every variable keeps its type: in particular a token is only ever created
\* for an entity that the alias belongs to (LeaseRegistration::call).
THEOREM TypeCorrect == Spec => []TypeOK
<1>1. TypeInv => TypeOK
  BY DEF TypeInv
<1> QED
  BY <1>1, TypeInit, TypeStep, PTL DEF Spec

-----------------------------------------------------------------------------
(***************************************************************************)
(* Who knows a token                                                       *)
(***************************************************************************)

\* Tokens are drawn before anything is done with them, and a lease is deleted
\* only after its token was revoked or given up.
UsedInv ==
    /\ \A x \in tokens : x.id \in used
    /\ \A le \in leases : le.token \in used
    /\ given \subseteq used /\ revoked \subseteq used /\ abandoned \subseteq used
    /\ \A r \in Request :
          /\ req[r].pc \in Naming => req[r].token \in used
          /\ req[r].send \subseteq used
          /\ req[r].delete \subseteq revoked \cup abandoned

\* Only the login that drew a token works on it, until its lease is registered.
Secret(r) ==
    /\ req[r].token \notin given \cup revoked \cup abandoned
    /\ \A le \in leases : le.token # req[r].token
    /\ req[r].pc = "token" => \A x \in tokens : x.id # req[r].token
    /\ \A q \in Request :
          /\ req[r].token \notin req[q].send
          /\ q # r /\ req[q].pc \in Naming => req[q].token # req[r].token

DrawnInv == \A r \in Request : req[r].pc \in Drawing => Secret(r)

\* No lease and no handler names a root token.
RootsInv == \A x \in tokens : x.expires_at = None =>
    /\ x.entity = RootEntity
    /\ \A le \in leases : le.token # x.id
    /\ \A r \in Request : req[r].pc \in Naming => req[r].token # x.id

LEMMA UsedStep ==
    ASSUME TypeInv, UsedInv, [Next]_vars
    PROVE  UsedInv'
<1>1. \A r \in Request : Sound(req[r]) /\ req[r] \in Handler
  BY DEF TypeInv, TypeOK, HandlersOK
<1>2. CASE QuietStep
  BY <1>2 DEF QuietStep, Quiet, UsedInv
<1> SUFFICES ASSUME NEW r \in Request, Step(r)
             PROVE  UsedInv'
  BY <1>2, StepCases
<1> USE DEF UsedInv, Becomes
<1>3. CASE DrawStep(r)
  BY <1>3 DEF DrawStep
<1>4. CASE CreateStep(r)
  BY <1>4 DEF CreateStep, Naming
<1>5. CASE RegisterStep(r)
  BY <1>5, IdleType DEF RegisterStep, Naming
<1>6. CASE BeginRenewStep(r)
  BY <1>6 DEF BeginRenewStep
<1>7. CASE RenewStep(r)
  <2>1. \A y \in tokens' : y.id \in used'
    BY <1>7 DEF RenewStep, RowsRenewed
  <2> QED
    BY <1>7, <2>1 DEF RenewStep, Naming
<1>8. CASE WriteStep(r)
  BY <1>8, IdleType DEF WriteStep, Naming
<1>9. CASE BeginRevokeStep(r)
  BY <1>9 DEF BeginRevokeStep, Naming, Revoking
<1>10. ASSUME NEW t \in Token, NEW gone \in BOOLEAN, RevokeStep(r, t, gone)
       PROVE  UsedInv'
  <2>1. PICK h \in Handler :
            /\ t \in req[r].send
            /\ Becomes(r, h)
            /\ h.pc = req[r].pc /\ h.pc \in Revoking /\ h.send \subseteq req[r].send
            /\ h.delete = req[r].delete
               \/ (h.delete = req[r].delete \cup {t} /\ t \in revoked' \cup abandoned')
    BY <1>10 DEF RevokeStep
  <2>2. /\ tokens' \subseteq tokens
        /\ revoked \subseteq revoked' /\ revoked' \subseteq revoked \cup {t}
        /\ abandoned \subseteq abandoned' /\ abandoned' \subseteq abandoned \cup {t}
        /\ UNCHANGED <<leases, used, given>>
    BY <1>10 DEF RevokeStep
  <2> QED
    BY <2>1, <2>2 DEF Naming, Revoking
<1>11. ASSUME NEW t \in Token, DeleteStep(r, t)
       PROVE  UsedInv'
  BY <1>11 DEF DeleteStep, Naming, Revoking
<1>12. CASE RootStep(r)
  BY <1>12, IdleType DEF RootStep, Naming
<1> QED
  BY <1>3, <1>4, <1>5, <1>6, <1>7, <1>8, <1>9, <1>10, <1>11, <1>12 DEF Step, SessionStep

LEMMA DrawnStep ==
    ASSUME TypeInv, UsedInv, DrawnInv, [Next]_vars
    PROVE  DrawnInv'
<1>1. \A r \in Request : Sound(req[r]) /\ req[r] \in Handler
  BY DEF TypeInv, TypeOK, HandlersOK
<1>2. CASE QuietStep
  BY <1>2 DEF QuietStep, Quiet, DrawnInv, Secret, Drawing, Naming
<1> SUFFICES ASSUME NEW r \in Request, Step(r)
             PROVE  DrawnInv'
  BY <1>2, StepCases
<1> USE DEF DrawnInv, Secret, Becomes
<1>3. CASE DrawStep(r)
  BY <1>3 DEF DrawStep, UsedInv, Drawing, Naming
<1>4. CASE CreateStep(r)
  BY <1>4 DEF CreateStep, Drawing, Naming
<1>5. CASE RegisterStep(r)
  BY <1>5, IdleType DEF RegisterStep, Drawing, Naming
<1>6. CASE BeginRenewStep(r)
  BY <1>6 DEF BeginRenewStep, Drawing, Naming
<1>7. CASE RenewStep(r)
  BY <1>7 DEF RenewStep, RowsRenewed, Drawing, Naming
<1>8. CASE WriteStep(r)
  BY <1>8, IdleType DEF WriteStep, Drawing, Naming
<1>9. CASE BeginRevokeStep(r)
  BY <1>9 DEF BeginRevokeStep, Drawing, Naming, Revoking
<1>10. ASSUME NEW t \in Token, NEW gone \in BOOLEAN, RevokeStep(r, t, gone)
       PROVE  DrawnInv'
  <2>1. PICK h \in Handler :
            /\ t \in req[r].send
            /\ Becomes(r, h)
            /\ h.pc \in Revoking /\ h.send \subseteq req[r].send
    BY <1>10 DEF RevokeStep
  <2>2. /\ tokens' \subseteq tokens
        /\ revoked' \subseteq revoked \cup {t}
        /\ abandoned' \subseteq abandoned \cup {t}
        /\ UNCHANGED <<leases, given>>
    BY <1>10 DEF RevokeStep
  <2> QED
    BY <2>1, <2>2 DEF Drawing, Naming, Revoking
<1>11. ASSUME NEW t \in Token, DeleteStep(r, t)
       PROVE  DrawnInv'
  BY <1>11 DEF DeleteStep, Drawing, Naming, Revoking
<1>12. CASE RootStep(r)
  BY <1>12, IdleType DEF RootStep, UsedInv, Drawing, Naming
<1> QED
  BY <1>3, <1>4, <1>5, <1>6, <1>7, <1>8, <1>9, <1>10, <1>11, <1>12 DEF Step, SessionStep

LEMMA RootsStep ==
    ASSUME TypeInv, UsedInv, DrawnInv, RootsInv, [Next]_vars
    PROVE  RootsInv'
<1>1. CASE QuietStep
  BY <1>1 DEF QuietStep, Quiet, RootsInv
<1> SUFFICES ASSUME NEW r \in Request, Step(r)
             PROVE  RootsInv'
  BY <1>1, StepCases
<1> USE DEF RootsInv, Becomes
<1>2. CASE DrawStep(r)
  BY <1>2 DEF DrawStep, UsedInv
<1>3. CASE CreateStep(r)
  BY <1>3 DEF CreateStep, Naming
<1>4. CASE RegisterStep(r)
  BY <1>4, IdleType DEF RegisterStep, Naming
<1>5. CASE BeginRenewStep(r)
  BY <1>5 DEF BeginRenewStep
<1>6. CASE RenewStep(r)
  <2>1. clock \in Nat /\ req[r].ttl \in Nat
    BY DEF TypeInv, TypeOK, Handler
  <2>2. clock + req[r].ttl # None
    BY <2>1, NoneAssumption
  <2>3. \A y \in tokens' : y.expires_at = None => y \in tokens
    BY <1>6, <2>2 DEF RenewStep, RowsRenewed
  <2> QED
    BY <1>6, <2>3 DEF RenewStep, Naming
<1>7. CASE WriteStep(r)
  BY <1>7, IdleType DEF WriteStep, Naming
<1>8. CASE BeginRevokeStep(r)
  BY <1>8 DEF BeginRevokeStep, Naming, Revoking
<1>9. ASSUME NEW t \in Token, NEW gone \in BOOLEAN, RevokeStep(r, t, gone)
      PROVE  RootsInv'
  <2>1. tokens' \subseteq tokens /\ UNCHANGED leases
    BY <1>9 DEF RevokeStep
  <2> QED
    BY <1>9, <2>1 DEF RevokeStep, Naming, Revoking
<1>10. ASSUME NEW t \in Token, DeleteStep(r, t)
       PROVE  RootsInv'
  BY <1>10 DEF DeleteStep, Naming, Revoking
<1>11. CASE RootStep(r)
  BY <1>11, IdleType DEF RootStep, UsedInv, Naming
<1> QED
  BY <1>2, <1>3, <1>4, <1>5, <1>6, <1>7, <1>8, <1>9, <1>10, <1>11 DEF Step, SessionStep

-----------------------------------------------------------------------------
(***************************************************************************)
(* Revocation and disabled mounts                                          *)
(***************************************************************************)

LEMMA RevokedStep ==
    ASSUME TypeInv, UsedInv, DrawnInv, RevokedIsFinal, [Next]_vars
    PROVE  RevokedIsFinal'
<1>1. CASE QuietStep
  BY <1>1 DEF QuietStep, RevokedIsFinal
<1> SUFFICES ASSUME NEW r \in Request, Step(r)
             PROVE  RevokedIsFinal'
  BY <1>1, StepCases
<1> USE DEF RevokedIsFinal
<1>2. CASE DrawStep(r) \/ RegisterStep(r) \/ BeginRenewStep(r) \/ WriteStep(r) \/ BeginRevokeStep(r)
  BY <1>2 DEF DrawStep, RegisterStep, BeginRenewStep, WriteStep, BeginRevokeStep
<1>3. CASE CreateStep(r)
  BY <1>3 DEF CreateStep, DrawnInv, Secret, Drawing
<1>4. CASE RenewStep(r)
  BY <1>4 DEF RenewStep, RowsRenewed
<1>5. CASE \E t \in Token, gone \in BOOLEAN : RevokeStep(r, t, gone)
  BY <1>5 DEF RevokeStep
<1>6. CASE \E t \in Token : DeleteStep(r, t)
  BY <1>6 DEF DeleteStep
<1>7. CASE RootStep(r)
  BY <1>7 DEF RootStep, UsedInv
<1> QED
  BY <1>2, <1>3, <1>4, <1>5, <1>6, <1>7 DEF Step, SessionStep

LEMMA LeaseStep ==
    ASSUME TypeInv, UsedInv, DrawnInv, RootsInv, RevokedIsFinal, GivenHasLease, [Next]_vars
    PROVE  GivenHasLease'
<1>1. CASE QuietStep
  BY <1>1 DEF QuietStep, GivenHasLease
<1> SUFFICES ASSUME NEW r \in Request, Step(r)
             PROVE  GivenHasLease'
  BY <1>1, StepCases
<1> USE DEF GivenHasLease
<1>2. CASE DrawStep(r) \/ BeginRenewStep(r) \/ BeginRevokeStep(r)
  BY <1>2 DEF DrawStep, BeginRenewStep, BeginRevokeStep
<1>3. CASE CreateStep(r)
  BY <1>3 DEF CreateStep, DrawnInv, Secret, Drawing
<1>4. CASE RegisterStep(r)
  BY <1>4 DEF RegisterStep
<1>5. CASE RenewStep(r)
  <2>1. ASSUME NEW y \in tokens', y.id \in given, y.expires_at # None
        PROVE  y.id \in abandoned \/ \E le \in leases : le.token = y.id
    <3>1. PICK x \in tokens : y.id = x.id /\ (y = x \/ x.id = req[r].token)
      BY <1>5 DEF RenewStep, RowsRenewed
    <3>2. x.expires_at # None
      BY <1>5, <2>1, <3>1 DEF RenewStep, RootsInv, Naming
    <3> QED
      BY <2>1, <3>1, <3>2
  <2> QED
    BY <1>5, <2>1 DEF RenewStep
<1>6. CASE WriteStep(r)
  BY <1>6 DEF WriteStep
<1>7. CASE \E t \in Token, gone \in BOOLEAN : RevokeStep(r, t, gone)
  BY <1>7 DEF RevokeStep
<1>8. ASSUME NEW t \in Token, DeleteStep(r, t)
      PROVE  GivenHasLease'
  <2>1. t \in revoked \cup abandoned
    BY <1>8 DEF DeleteStep, UsedInv
  <2>2. \A x \in tokens : x.id = t => x.id \in abandoned
    BY <2>1 DEF RevokedIsFinal
  <2>3. /\ \A le \in leases : le.token # t => le \in leases'
        /\ UNCHANGED <<tokens, given, abandoned>>
    BY <1>8 DEF DeleteStep
  <2> QED
    BY <2>2, <2>3
<1>9. CASE RootStep(r)
  BY <1>9 DEF RootStep, UsedInv
<1> QED
  BY <1>2, <1>3, <1>4, <1>5, <1>6, <1>7, <1>8, <1>9 DEF Step, SessionStep

\* The foreign key from LEASES to MOUNTS
LeaseHasMount == ~ mounted => leases = {}

LEMMA MountStep ==
    ASSUME TypeInv, LeaseHasMount, [Next]_vars
    PROVE  LeaseHasMount'
<1>1. CASE QuietStep
  BY <1>1 DEF QuietStep, LeaseHasMount
<1> SUFFICES ASSUME NEW r \in Request, Step(r)
             PROVE  LeaseHasMount'
  BY <1>1, StepCases
<1>2. RegisterStep(r) => mounted' = mounted /\ mounted
  BY DEF RegisterStep
<1>3. ~ RegisterStep(r) => mounted' = mounted /\ (leases = {} => leases' = {})
  BY DEF Step, SessionStep, DrawStep, CreateStep, BeginRenewStep, RenewStep, WriteStep, BeginRevokeStep,
         RevokeStep, DeleteStep, RootStep
<1> QED
  BY <1>2, <1>3 DEF LeaseHasMount

SessionInv ==
    /\ TypeInv
    /\ UsedInv
    /\ DrawnInv
    /\ RootsInv
    /\ RevokedIsFinal
    /\ GivenHasLease
    /\ LeaseHasMount

LEMMA SessionInit == Init => SessionInv
<1> SUFFICES ASSUME Init
             PROVE  SessionInv
  OBVIOUS
<1>1. /\ tokens = {} /\ leases = {} /\ given = {} /\ revoked = {} /\ abandoned = {}
      /\ \A r \in Request : req[r] = Idle
  BY DEF Init
<1> QED
  BY <1>1, TypeInit, IdleType
     DEF SessionInv, UsedInv, DrawnInv, RootsInv, RevokedIsFinal, GivenHasLease, LeaseHasMount,
         Drawing, Naming

LEMMA SessionInvariant == Spec => []SessionInv
<1>1. SessionInv /\ [Next]_vars => SessionInv'
  BY TypeStep, UsedStep, DrawnStep, RootsStep, RevokedStep, LeaseStep, MountStep DEF SessionInv
<1> QED
  BY <1>1, SessionInit, PTL DEF Spec

\* No interleaving of renewals with the revocation of a token stores the token
\* again (handle_token_revocation, handle_token_renewal).
THEOREM RevocationCorrect == Spec => []RevokedIsFinal
BY SessionInvariant, PTL DEF SessionInv

\* A stored token that a client got through a login has a lease, or was given
\* up after the last attempt to revoke it (LeaseRegistration::call).
THEOREM LeasesCorrect == Spec => []GivenHasLease
BY SessionInvariant, PTL DEF SessionInv

\* When the auth mount is gone, so are the tokens of its logins, but for those
\* that were given up (remove_mount).
THEOREM DisableCorrect == Spec => []DisableEndsSessions
<1>1. SessionInv => DisableEndsSessions
  BY DEF SessionInv, LeaseHasMount, GivenHasLease, DisableEndsSessions
<1> QED
  BY <1>1, SessionInvariant, PTL

-----------------------------------------------------------------------------
(***************************************************************************)
(* The life of a token                                                     *)
(***************************************************************************)

\* Token, lease and handler agree on when the token was issued.
IssuedInv == \A x \in tokens :
    /\ \A le \in leases : le.token = x.id => le.issued_at = x.issued_at
    /\ \A r \in Request : req[r].pc \in Naming /\ req[r].token = x.id => req[r].issued = x.issued_at

\* The TTL that a login computed, and that of a renewal when it began
FitsLife(h) ==
    /\ h.pc \in Drawing => h.ttl <= Config.max_lease_ttl
    /\ h.pc = "renew" =>
          /\ h.since <= clock /\ clock <= h.since + RequestTime
          /\ h.ttl = 0 \/ h.since + h.ttl <= h.issued + Config.max_lease_ttl

TtlInv == \A r \in Request : FitsLife(req[r])

LifeInv == IssuedInv /\ TtlInv /\ TokenLifetimeBounded

LEMMA IssuedStep ==
    ASSUME TypeInv, UsedInv, DrawnInv, IssuedInv, [Next]_vars
    PROVE  IssuedInv'
<1>1. CASE QuietStep
  BY <1>1 DEF QuietStep, Quiet, IssuedInv
<1> SUFFICES ASSUME NEW r \in Request, Step(r)
             PROVE  IssuedInv'
  BY <1>1, StepCases
<1> USE DEF IssuedInv, Becomes
<1>2. CASE DrawStep(r)
  BY <1>2 DEF DrawStep, UsedInv
<1>3. CASE CreateStep(r)
  BY <1>3 DEF CreateStep, DrawnInv, Secret, Drawing, Naming
<1>4. CASE RegisterStep(r)
  BY <1>4, IdleType DEF RegisterStep, Naming
<1>5. CASE BeginRenewStep(r)
  BY <1>5 DEF BeginRenewStep
<1>6. CASE RenewStep(r)
  <2>1. \A y \in tokens' : \E x \in tokens : y.id = x.id /\ y.issued_at = x.issued_at
    BY <1>6 DEF RenewStep, RowsRenewed
  <2> QED
    BY <1>6, <2>1 DEF RenewStep, Naming
<1>7. CASE WriteStep(r)
  BY <1>7, IdleType DEF WriteStep, Naming
<1>8. CASE BeginRevokeStep(r)
  BY <1>8 DEF BeginRevokeStep, Naming, Revoking
<1>9. ASSUME NEW t \in Token, NEW gone \in BOOLEAN, RevokeStep(r, t, gone)
      PROVE  IssuedInv'
  <2>1. tokens' \subseteq tokens /\ UNCHANGED leases
    BY <1>9 DEF RevokeStep
  <2> QED
    BY <1>9, <2>1 DEF RevokeStep, Naming, Revoking
<1>10. ASSUME NEW t \in Token, DeleteStep(r, t)
       PROVE  IssuedInv'
  BY <1>10 DEF DeleteStep, Naming, Revoking
<1>11. CASE RootStep(r)
  BY <1>11, IdleType DEF RootStep, UsedInv, Naming
<1> QED
  BY <1>2, <1>3, <1>4, <1>5, <1>6, <1>7, <1>8, <1>9, <1>10, <1>11 DEF Step, SessionStep

LEMMA TtlStep ==
    ASSUME TypeInv, TtlInv, [Next]_vars
    PROVE  TtlInv'
<1>0. /\ clock \in Nat /\ RequestTime \in Nat /\ Config.max_lease_ttl \in Nat
      /\ \A r \in Request : req[r] \in Handler
      /\ \A le \in leases : le.issued_at \in Nat
  BY AuthAssumption, ConfigsAssumption DEF TypeInv, TypeOK, MountConfig, Lease
<1>1. CASE QuietStep
  <2>1. ASSUME NEW r \in Request, req'[r] = req[r]
        PROVE  FitsLife(req[r])'
    <3>1. CASE Tick
      <4>1. /\ clock' = clock + 1
            /\ req[r].pc = "renew" => clock < req[r].since + RequestTime
        BY <3>1 DEF Tick
      <4>2. req[r].since \in Nat
        BY <1>0 DEF Handler
      <4> QED
        BY <1>0, <2>1, <4>1, <4>2 DEF TtlInv, FitsLife
    <3>2. CASE clock' = clock
      BY <2>1, <3>2 DEF TtlInv, FitsLife
    <3> QED
      BY <1>1, <3>1, <3>2 DEF QuietStep
  <2>2. ASSUME NEW r \in Request, Quiet(req'[r])
        PROVE  FitsLife(req[r])'
    BY <2>2 DEF Quiet, FitsLife, Drawing, Naming
  <2> QED
    BY <1>1, <2>1, <2>2 DEF QuietStep, TtlInv
<1> SUFFICES ASSUME NEW r \in Request, Step(r)
             PROVE  TtlInv'
  BY <1>1, StepCases
<1>2. clock' = clock
  BY DEF Step, SessionStep, DrawStep, CreateStep, RegisterStep, BeginRenewStep, RenewStep, WriteStep,
         BeginRevokeStep, RevokeStep, DeleteStep, RootStep
<1>3. ASSUME NEW h \in Handler, Becomes(r, h), FitsLife(h)
      PROVE  TtlInv'
  BY <1>2, <1>3 DEF Becomes, TtlInv, FitsLife
<1>4. CASE DrawStep(r)
  <2>1. PICK h \in Handler :
            Becomes(r, h) /\ h.pc = "token" /\ h.ttl = CalculateTtl(clock, clock, Config, None)
    BY <1>4 DEF DrawStep
  <2>2. h.ttl \in Nat /\ (h.ttl = 0 \/ clock + h.ttl <= clock + Config.max_lease_ttl)
    BY <1>0, <2>1, TtlBound
  <2>3. FitsLife(h)
    BY <1>0, <2>1, <2>2 DEF FitsLife
  <2> QED
    BY <1>3, <2>1, <2>3
<1>5. CASE CreateStep(r)
  BY <1>3, <1>5 DEF CreateStep, TtlInv, FitsLife, Drawing
<1>6. CASE BeginRenewStep(r)
  <2>1. PICK h \in Handler, le \in leases, ttl \in Nat \cup {None} :
            /\ Becomes(r, h) /\ h.pc = "renew" /\ h.issued = le.issued_at /\ h.since = clock
            /\ h.ttl = CalculateTtl(clock, le.issued_at, Config, ttl)
    BY <1>6 DEF BeginRenewStep
  <2>2. h.ttl \in Nat /\ (h.ttl = 0 \/ clock + h.ttl <= h.issued + Config.max_lease_ttl)
    BY <1>0, <2>1, TtlBound
  <2>3. FitsLife(h)
    BY <1>0, <2>1, <2>2 DEF FitsLife, Drawing
  <2> QED
    BY <1>3, <2>1, <2>3
<1>7. CASE ~ (DrawStep(r) \/ CreateStep(r) \/ BeginRenewStep(r))
  <2>1. PICK h \in Handler : Becomes(r, h) /\ h.pc \notin Drawing /\ h.pc # "renew"
    BY <1>7, IdleType
       DEF Step, SessionStep, RegisterStep, RenewStep, WriteStep, BeginRevokeStep, RevokeStep, DeleteStep,
           RootStep, Drawing, Revoking
  <2> QED
    BY <1>3, <2>1 DEF FitsLife
<1> QED
  BY <1>4, <1>5, <1>6, <1>7

LEMMA LifeStep ==
    ASSUME TypeInv, IssuedInv, TtlInv, TokenLifetimeBounded, [Next]_vars
    PROVE  TokenLifetimeBounded'
<1>0. /\ clock \in Nat /\ RequestTime \in Nat /\ Config.max_lease_ttl \in Nat
      /\ \A r \in Request : req[r] \in Handler
      /\ \A x \in tokens : x.expires_at \in Nat \cup {None} /\ x.issued_at \in Nat
  BY AuthAssumption, ConfigsAssumption DEF TypeInv, TypeOK, MountConfig, TokenEntry
<1> DEFINE Bounded(x) ==
              \/ x.expires_at = None
              \/ x.expires_at <= clock
              \/ x.expires_at <= x.issued_at + Config.max_lease_ttl + RequestTime
<1>1. CASE QuietStep
  <2>1. clock' \in Nat /\ clock <= clock' /\ tokens' = tokens
    BY <1>0, <1>1 DEF QuietStep, Tick
  <2> QED
    BY <1>0, <2>1 DEF TokenLifetimeBounded
<1> SUFFICES ASSUME NEW r \in Request, Step(r)
             PROVE  TokenLifetimeBounded'
  BY <1>1, StepCases
<1>2. clock' = clock
  BY DEF Step, SessionStep, DrawStep, CreateStep, RegisterStep, BeginRenewStep, RenewStep, WriteStep,
         BeginRevokeStep, RevokeStep, DeleteStep, RootStep
<1>3. ASSUME \A y \in tokens' : y \in tokens \/ Bounded(y)
      PROVE  TokenLifetimeBounded'
  BY <1>2, <1>3 DEF TokenLifetimeBounded
<1>4. CASE CreateStep(r)
  <2>1. PICK x \in TokenEntry :
            /\ tokens' = tokens \cup {x}
            /\ x.issued_at = req[r].issued /\ x.expires_at = req[r].issued + req[r].ttl
    BY <1>4 DEF CreateStep
  <2>2. req[r].issued \in Nat /\ req[r].ttl \in Nat /\ req[r].ttl <= Config.max_lease_ttl
    BY <1>0, <1>4 DEF CreateStep, TtlInv, FitsLife, Drawing, Handler
  <2>3. Bounded(x)
    BY <1>0, <2>1, <2>2
  <2> QED
    BY <1>3, <2>1, <2>3
<1>5. CASE RenewStep(r)
  <2>1. /\ req[r].since \in Nat /\ req[r].ttl \in Nat /\ req[r].issued \in Nat
        /\ req[r].since <= clock /\ clock <= req[r].since + RequestTime
        /\ req[r].ttl = 0 \/ req[r].since + req[r].ttl <= req[r].issued + Config.max_lease_ttl
    BY <1>0, <1>5 DEF RenewStep, TtlInv, FitsLife, Handler
  <2>2. \/ clock + req[r].ttl <= clock
        \/ clock + req[r].ttl <= req[r].issued + Config.max_lease_ttl + RequestTime
    BY <1>0, <2>1
  <2>3. ASSUME NEW y \in tokens'
        PROVE  y \in tokens \/ Bounded(y)
    <3>1. PICK x \in tokens :
              /\ y.issued_at = x.issued_at
              /\ y = x \/ (x.id = req[r].token /\ y.expires_at = clock + req[r].ttl)
      BY <1>5, <2>3 DEF RenewStep, RowsRenewed
    <3>2. x.id = req[r].token => x.issued_at = req[r].issued
      BY <1>5 DEF RenewStep, IssuedInv, Naming
    <3> QED
      BY <2>2, <3>1, <3>2
  <2> QED
    BY <1>3, <2>3
<1>6. CASE RootStep(r)
  BY <1>3, <1>6 DEF RootStep
<1>7. CASE ~ (CreateStep(r) \/ RenewStep(r) \/ RootStep(r))
  <2>1. tokens' \subseteq tokens
    BY <1>7 DEF Step, SessionStep, DrawStep, RegisterStep, BeginRenewStep, WriteStep, BeginRevokeStep,
                RevokeStep, DeleteStep
  <2> QED
    BY <1>3, <2>1
<1> QED
  BY <1>4, <1>5, <1>6, <1>7

\* For every configuration and timeout, no renewal makes a token valid for
\* longer than max_lease_ttl and the time of one request (handle_token_renewal).
THEOREM LifetimeCorrect == Spec => []TokenLifetimeBounded
<1>1. Init => LifeInv
  BY IdleType DEF Init, LifeInv, IssuedInv, TtlInv, FitsLife, TokenLifetimeBounded, Drawing
<1>2. SessionInv /\ LifeInv /\ [Next]_vars => LifeInv'
  BY IssuedStep, TtlStep, LifeStep DEF SessionInv, LifeInv
<1>3. LifeInv => TokenLifetimeBounded
  BY DEF LifeInv
<1> QED
  BY <1>1, <1>2, <1>3, SessionInvariant, PTL DEF Spec

-----------------------------------------------------------------------------
(***************************************************************************)
(* The root token                                                          *)
(***************************************************************************)

Rooting == {"root_entity", "root_attach", "root_token"}

RootAttached == RootPolicy \in policies /\ <<RootEntity, RootPolicy>> \in attached

\* What generate_root_token has stored before each of its queries
RootReady(pc) ==
    /\ pc = "root_entity" => RootPolicy \in policies
    /\ pc = "root_attach" => RootPolicy \in policies /\ RootEntity \in entities
    /\ pc = "root_token" => RootAttached

RootInv == ~ disturbed =>
    /\ \A r \in Request : RootReady(req[r].pc)
    /\ \A x \in tokens : x.expires_at = None => RootAttached

\* Entities, policies and attachments are only added.
Grows ==
    /\ policies \subseteq policies' /\ entities \subseteq entities' /\ attached \subseteq attached'
    /\ disturbed' = disturbed

LEMMA RootKept ==
    ASSUME RootInv, Grows,
           \A q \in Request : req'[q].pc = req[q].pc \/ req'[q].pc \notin Rooting,
           \A y \in tokens' : y.expires_at = None => y \in tokens
    PROVE  RootInv'
BY DEF RootInv, Grows, RootReady, RootAttached, Rooting

\* One query of generate_root_token
LEMMA RootAdvances ==
    ASSUME RootInv, Grows, NEW r \in Request, NEW h \in Handler, Becomes(r, h),
           h.pc = "root_entity" => RootPolicy \in policies',
           h.pc = "root_attach" => RootPolicy \in policies' /\ RootEntity \in entities',
           h.pc = "root_token" => RootPolicy \in policies' /\ <<RootEntity, RootPolicy>> \in attached',
           UNCHANGED tokens
    PROVE  RootInv'
<1>1. ASSUME NEW q \in Request, ~ disturbed
      PROVE  RootReady(req[q].pc)'
  <2>1. CASE q = r
    BY <2>1 DEF Becomes, RootReady, RootAttached
  <2>2. CASE q # r
    BY <1>1, <2>2 DEF Becomes, RootReady, RootAttached, RootInv, Grows
  <2> QED
    BY <2>1, <2>2
<1> QED
  BY <1>1 DEF RootInv, RootAttached, Grows

LEMMA RootUntouched ==
    ASSUME TypeInv, RootInv, NEW r \in Request, SessionStep(r), Grows
    PROVE  RootInv'
<1>1. \A q \in Request : req'[q].pc = req[q].pc \/ req'[q].pc \notin Rooting
  BY IdleType DEF SessionStep, DrawStep, CreateStep, RegisterStep, BeginRenewStep, RenewStep,
                  WriteStep, BeginRevokeStep, RevokeStep, DeleteStep, Becomes, Rooting, Revoking
<1>2. \A y \in tokens' : y.expires_at = None => y \in tokens
  <2>1. CASE CreateStep(r)
    BY <2>1 DEF CreateStep
  <2>2. CASE RenewStep(r)
    <3>1. clock \in Nat /\ req[r].ttl \in Nat
      BY DEF TypeInv, TypeOK, Handler
    <3>2. clock + req[r].ttl # None
      BY <3>1, NoneAssumption
    <3> QED
      BY <2>2, <3>2 DEF RenewStep, RowsRenewed
  <2>3. CASE ~ (CreateStep(r) \/ RenewStep(r))
    BY <2>3 DEF SessionStep, DrawStep, RegisterStep, BeginRenewStep, WriteStep, BeginRevokeStep,
                RevokeStep, DeleteStep
  <2> QED
    BY <2>1, <2>2, <2>3
<1> QED
  BY <1>1, <1>2, RootKept

\* Handlers that end, or begin, and leave the tables alone
LEMMA RootIgnored ==
    ASSUME TypeInv, RootInv, NEW r \in Request, Grows, UNCHANGED tokens,
           \/ Done(r)
           \/ BeginRootToken(r)
           \/ \E a \in Alias : Login(r, a)
    PROVE  RootInv'
<1>1. clock \in Nat /\ req \in [Request -> Handler]
  BY DEF TypeInv, TypeOK
<1>2. \A q \in Request : req'[q].pc = req[q].pc \/ req'[q].pc \in {"idle", "root_policy", "alias"}
  <2>1. ASSUME NEW h, h.pc \in {"idle", "root_policy", "alias"}, SetReq(r, h)
        PROVE  \A q \in Request : req'[q].pc = req[q].pc \/ req'[q].pc \in {"idle", "root_policy", "alias"}
    BY <1>1, <2>1 DEF SetReq
  <2>2. /\ Idle.pc = "idle" /\ Begin("root_policy").pc = "root_policy"
        /\ \A a \in Alias : [Begin("alias") EXCEPT !.alias = a].pc = "alias"
    BY DEF Begin, Idle
  <2>3. CASE Done(r)
    BY <2>1, <2>2, <2>3 DEF Done
  <2>4. CASE BeginRootToken(r)
    BY <2>1, <2>2, <2>4 DEF BeginRootToken
  <2>5. ASSUME NEW a \in Alias, Login(r, a)
        PROVE  \A q \in Request : req'[q].pc = req[q].pc \/ req'[q].pc \in {"idle", "root_policy", "alias"}
    <3> DEFINE h == [Begin("alias") EXCEPT !.alias = a]
    <3>1. SetReq(r, h) /\ h.pc = "alias"
      BY <2>2, <2>5 DEF Login
    <3> HIDE DEF h
    <3> QED
      BY <2>1, <3>1
  <2> QED
    BY <2>3, <2>4, <2>5
<1> QED
  BY <1>2, RootKept DEF Rooting

LEMMA RootSession ==
    ASSUME TypeInv, RootInv, NEW r \in Request,
           \/ LookupAlias(r) \/ CreateToken(r) \/ Register(r)
           \/ \E le \in leases, ttl \in RenewTtls : BeginRenew(r, le, ttl)
           \/ RenewToken(r) \/ WriteLease(r)
           \/ \E le \in leases : BeginRevoke(r, le)
           \/ BeginDisable(r)
           \/ \E t \in Token : RevokeToken(r, t) \/ RevokeFails(r, t) \/ DeleteLease(r, t)
    PROVE  RootInv'
<1>1. Grows
  BY DEF LookupAlias, CreateToken, Register, BeginRenew, RenewToken, WriteLease, BeginRevoke,
         BeginDisable, RevokeToken, RevokeFails, DeleteLease, Grows, identity, history
<1>2. CASE LookupAlias(r) \/ CreateToken(r) \/ Register(r)
  <2>1. SessionStep(r) \/ (Done(r) /\ QuietStep)
    BY <1>2, DrawEffect, CreateEffect, RegisterEffect DEF SessionStep
  <2> QED
    BY <1>1, <2>1, RootUntouched, RootIgnored DEF QuietStep
<1>3. CASE \E le \in leases, ttl \in RenewTtls : BeginRenew(r, le, ttl)
  BY <1>1, <1>3, BeginRenewEffect, RootUntouched DEF SessionStep
<1>4. CASE RenewToken(r) \/ WriteLease(r)
  BY <1>1, <1>4, RenewEffect, WriteEffect, RootUntouched DEF SessionStep
<1>5. CASE BeginDisable(r) \/ \E le \in leases : BeginRevoke(r, le)
  BY <1>1, <1>5, BeginRevokeEffect, RootUntouched DEF SessionStep
<1>6. ASSUME NEW t \in Token, RevokeToken(r, t) \/ RevokeFails(r, t) \/ DeleteLease(r, t)
      PROVE  RootInv'
  <2>1. (\E gone \in BOOLEAN : RevokeStep(r, t, gone)) \/ DeleteStep(r, t)
    BY <1>6, RevokeEffect, DeleteEffect
  <2>2. SessionStep(r)
    BY <2>1 DEF SessionStep
  <2> QED
    BY <1>1, <2>2, RootUntouched
<1> QED
  BY <1>2, <1>3, <1>4, <1>5, <1>6

LEMMA RootQueries ==
    ASSUME TypeInv, RootInv, NEW r \in Request,
           \/ CreateRootPolicy(r) \/ CreateRootEntity(r) \/ AttachRootPolicy(r)
           \/ RootQueryFails(r) \/ CreateRootToken(r)
    PROVE  RootInv'
<1>1. CASE RootQueryFails(r)
  BY <1>1 DEF RootQueryFails, RootInv
<1>2. CASE CreateRootPolicy(r)
  <2>1. PICK h \in Handler : Becomes(r, h) /\ h.pc = "root_entity"
    BY <1>2, GotoEffect DEF CreateRootPolicy
  <2>2. Grows /\ RootPolicy \in policies' /\ UNCHANGED tokens
    BY <1>2 DEF CreateRootPolicy, Grows, history
  <2> QED
    BY <2>1, <2>2, RootAdvances
<1>3. CASE CreateRootEntity(r)
  <2>1. PICK h \in Handler : Becomes(r, h) /\ h.pc = "root_attach"
    BY <1>3, GotoEffect DEF CreateRootEntity
  <2>2. Grows /\ RootEntity \in entities' /\ UNCHANGED <<policies, tokens>>
    BY <1>3 DEF CreateRootEntity, Grows, history
  <2>3. ~ disturbed => RootPolicy \in policies
    BY <1>3 DEF CreateRootEntity, RootInv, RootReady
  <2>4. CASE disturbed
    BY <2>2, <2>4 DEF Grows, RootInv
  <2> QED
    BY <2>1, <2>2, <2>3, <2>4, RootAdvances
<1>4. CASE AttachRootPolicy(r)
  <2>1. PICK h \in Handler : Becomes(r, h) /\ h.pc = "root_token"
    BY <1>4, GotoEffect DEF AttachRootPolicy
  <2>2. Grows /\ UNCHANGED <<policies, tokens>>
    BY <1>4 DEF AttachRootPolicy, Grows, history
  <2>3. ~ disturbed => RootPolicy \in policies /\ <<RootEntity, RootPolicy>> \in attached'
    BY <1>4 DEF AttachRootPolicy, RootInv, RootReady
  <2>4. CASE disturbed
    BY <2>2, <2>4 DEF Grows, RootInv
  <2> QED
    BY <2>1, <2>2, <2>3, <2>4, RootAdvances
<1>5. CASE CreateRootToken(r)
  <2>1. Becomes(r, Idle) /\ UNCHANGED <<entities, policies, attached, disturbed>>
    BY <1>5, DoneEffect DEF CreateRootToken, identity
  <2>2. ~ disturbed => RootAttached
    BY <1>5 DEF CreateRootToken, RootInv, RootReady
  <2> QED
    BY <2>1, <2>2, IdleType DEF RootInv, RootReady, RootAttached, Becomes
<1> QED
  BY <1>1, <1>2, <1>3, <1>4, <1>5

LEMMA RootInvStep ==
    ASSUME TypeInv, RootInv, [Next]_vars
    PROVE  RootInv'
<1>1. ASSUME UNCHANGED <<req, tokens>>, Grows \/ disturbed'
      PROVE  RootInv'
  BY <1>1 DEF RootInv, RootReady, RootAttached, Grows
<1>2. CASE Administer
  <2>1. UNCHANGED <<req, tokens>> /\ (Grows \/ disturbed')
    BY <1>2 DEF Administer, Mount, CreateEntity, CreatePolicy, DeletePolicy, AttachPolicy, RemovePolicy,
                AttachAlias, RemoveAlias, Grows, identity, history
  <2> QED
    BY <1>1, <2>1
<1>3. CASE Tick \/ UNCHANGED vars
  BY <1>1, <1>3 DEF Tick, vars, Grows, identity, history
<1>4. ASSUME NEW r \in Request,
             \/ \E a \in Alias : Login(r, a)
             \/ BeginRootToken(r) \/ Revoked(r) \/ DeleteMount(r) \/ Cancel(r)
      PROVE  RootInv'
  <2>1. Grows /\ UNCHANGED tokens
    BY <1>4 DEF Login, BeginRootToken, Revoked, DeleteMount, Cancel, Grows, identity, history
  <2>2. Done(r) \/ BeginRootToken(r) \/ \E a \in Alias : Login(r, a)
    BY <1>4 DEF Revoked, DeleteMount, Cancel
  <2> QED
    BY <2>1, <2>2, RootIgnored
<1> QED
  BY <1>2, <1>3, <1>4, RootSession, RootQueries DEF Next, RequestStep

\* A root token has the root policy, whatever earlier and concurrent runs of
\* generate_root_token stored, unless a query failed or an operator took the
\* policy away.
THEOREM RootCorrect == Spec => []RootTokenWorks
<1>1. Init => RootInv
  BY IdleType DEF Init, RootInv, RootReady
<1>2. TypeInv /\ RootInv /\ [Next]_vars => RootInv'
  BY RootInvStep
<1>3. RootInv /\ RootsInv => RootTokenWorks
  BY DEF RootInv, RootsInv, RootTokenWorks, RootAttached, Policies
<1>4. SessionInv => TypeInv /\ RootsInv
  BY DEF SessionInv
<1> QED
  BY <1>1, <1>2, <1>3, <1>4, SessionInvariant, PTL DEF Spec
=============================================================================
