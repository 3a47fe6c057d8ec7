------------------------------ MODULE AuthTokens ------------------------------
(***************************************************************************)
(* Tokens of one namespace with one auth mount: entities, their aliases    *)
(* and policies, the TOKENS that a login creates and the leases that end   *)
(* them, and the root token of an unseal.                                  *)
(*                                                                         *)
(* Every query of a login, of a renewal, of a revocation and of            *)
(* generate_root_token is a step of its own; the handlers that run one     *)
(* query are one step.  A token's lease is known by the token.  Revocation *)
(* requests come from operators, from the worker of the expiration manager *)
(* and from a disable of the mount, at any time: when the worker revokes,  *)
(* and how often it tries, is ExpirationManager's subject; the router,     *)
(* which may refuse more than is refused here, is the subject of Mounts.   *)
(***************************************************************************)
EXTENDS Ttl, FiniteSets

CONSTANTS
    Request,        \* requests that can be in progress at once
    Token,          \* tokens (24 random characters: never drawn twice)
    Entity,
    Policy,
    Alias,          \* names that users log in with
    RootEntity,     \* the entity and the policy named root
    RootPolicy,
    Config,         \* the mount's configuration
    RenewTtls,      \* TTLs that a renewal asks for, or None
    RequestTime,    \* bound: how long a request takes; each of its queries
                    \* waits for the connection until the pool's acquire
                    \* timeout at most
    MaxTime,        \* bound: the last instant
    MaxFaults       \* bound: how many queries fail or requests end early

ASSUME AuthAssumption ==
    /\ RootEntity \in Entity
    /\ RootPolicy \in Policy
    /\ None \notin Entity /\ None \notin Token
    /\ Config \in Configs
    /\ RenewTtls \subseteq Nat \cup {None}
    /\ RequestTime \in Nat
    /\ MaxTime \in Nat
    /\ MaxFaults \in Nat

VARIABLES
    clock,      \* Utc::now()
    mounted,    \* the auth mount has a row in MOUNTS
    entities,   \* ENTITIES
    aliases,    \* ENTITY_ALIASES
    policies,   \* POLICIES
    attached,   \* ENTITY_POLICIES
    tokens,     \* TOKENS
    leases,     \* LEASES: those of tokens
    req,        \* the requests in progress
    \* history
    used,       \* tokens that were drawn
    given,      \* tokens that a client got
    revoked,    \* tokens whose revocation succeeded
    abandoned,  \* tokens whose revocation failed for the last time
    disturbed,  \* a query of generate_root_token failed, or a policy was
                \* removed or detached
    faults      \* how many faults happened

identity == <<entities, aliases, policies, attached>>
history  == <<used, given, revoked, abandoned, disturbed, faults>>
vars     == <<clock, mounted, identity, tokens, leases, req, history>>

-----------------------------------------------------------------------------
TokenEntry == [id : Token, entity : Entity, issued_at : Nat, expires_at : Nat \cup {None}]
Lease == [token : Token, issued_at : Nat, expires_at : Nat]

\* The value of pc is the next query of the handler:
\*   login                 alias, token, register;
\*   renew_lease_entry     renew, write;
\*   revocations           revoke, disable: the backend is asked to revoke the
\*                         tokens in send, the leases of delete are to go;
\*   generate_root_token   root_policy, root_entity, root_attach, root_token.
\* since is when the request began.
Handler == [pc     : {"idle", "alias", "token", "register", "renew", "write", "revoke", "disable",
                      "root_policy", "root_entity", "root_attach", "root_token"},
            since  : Nat,
            alias  : Alias \cup {None},
            entity : Entity \cup {None},
            token  : Token \cup {None},
            issued : Nat,
            ttl    : Nat,
            send   : SUBSET Token,
            delete : SUBSET Token]
Idle == [pc |-> "idle", since |-> 0, alias |-> None, entity |-> None, token |-> None,
         issued |-> 0, ttl |-> 0, send |-> {}, delete |-> {}]

TypeOK ==
    /\ clock \in Nat
    /\ mounted \in BOOLEAN
    /\ entities \subseteq Entity
    /\ aliases \subseteq Alias \X Entity
    /\ policies \subseteq Policy
    /\ attached \subseteq Entity \X Policy
    /\ tokens \subseteq TokenEntry
    /\ leases \subseteq Lease
    /\ req \in [Request -> Handler]
    /\ used \subseteq Token
    /\ given \subseteq Token
    /\ revoked \subseteq Token
    /\ abandoned \subseteq Token
    /\ disturbed \in BOOLEAN
    /\ faults \in Nat

Init ==
    /\ clock = 0
    /\ mounted = FALSE
    /\ entities = {}
    /\ aliases = {}
    /\ policies = {}
    /\ attached = {}
    /\ tokens = {}
    /\ leases = {}
    /\ req = [r \in Request |-> Idle]
    /\ used = {}
    /\ given = {}
    /\ revoked = {}
    /\ abandoned = {}
    /\ disturbed = FALSE
    /\ faults = 0

SetReq(r, h) == req' = [req EXCEPT ![r] = h]
Goto(r, pc) == SetReq(r, [req[r] EXCEPT !.pc = pc])
Done(r) == SetReq(r, Idle)
Begin(pc) == [Idle EXCEPT !.pc = pc, !.since = clock]

\* lookup_policies: the policies of the token's entity, if it has not expired
Policies(t) ==
    {p \in policies : \E x \in tokens :
        /\ x.id = t
        /\ x.expires_at = None \/ x.expires_at > clock
        /\ <<x.entity, p>> \in attached}

-----------------------------------------------------------------------------
(***************************************************************************)
(* Entities, aliases, policies and the mount: handlers of one query        *)
(***************************************************************************)

CreateEntity(e) ==
    /\ e \notin entities
    /\ entities' = entities \cup {e}
    /\ UNCHANGED <<clock, mounted, aliases, policies, attached, tokens, leases, req, history>>

\* An entity has at most one alias on a mount; two entities may share a name.
AttachAlias(e, a) ==
    /\ e \in entities /\ mounted
    /\ \A x \in aliases : x[2] # e
    /\ aliases' = aliases \cup {<<a, e>>}
    /\ UNCHANGED <<clock, mounted, entities, policies, attached, tokens, leases, req, history>>

RemoveAlias(e, a) ==
    /\ <<a, e>> \in aliases
    /\ aliases' = aliases \ {<<a, e>>}
    /\ UNCHANGED <<clock, mounted, entities, policies, attached, tokens, leases, req, history>>

CreatePolicy(p) ==
    /\ p \notin policies
    /\ policies' = policies \cup {p}
    /\ UNCHANGED <<clock, mounted, entities, aliases, attached, tokens, leases, req, history>>

\* ON DELETE CASCADE
DeletePolicy(p) ==
    /\ p \in policies
    /\ policies' = policies \ {p}
    /\ attached' = {x \in attached : x[2] # p}
    /\ disturbed' = TRUE
    /\ UNCHANGED <<clock, mounted, entities, aliases, tokens, leases, req,
                   used, given, revoked, abandoned, faults>>

\* One of the INSERTs of handle_attach_entity_policy; its look-ups before them
\* only refuse.
AttachPolicy(e, p) ==
    /\ e \in entities /\ p \in policies
    /\ attached' = attached \cup {<<e, p>>}
    /\ UNCHANGED <<clock, mounted, entities, aliases, policies, tokens, leases, req, history>>

RemovePolicy(e, p) ==
    /\ <<e, p>> \in attached
    /\ attached' = attached \ {<<e, p>>}
    /\ disturbed' = TRUE
    /\ UNCHANGED <<clock, mounted, entities, aliases, policies, tokens, leases, req,
                   used, given, revoked, abandoned, faults>>

Mount ==
    /\ ~ mounted
    /\ mounted' = TRUE
    /\ UNCHANGED <<clock, identity, tokens, leases, req, history>>

-----------------------------------------------------------------------------
(***************************************************************************)
(* Login: what the lease registration layer does with Response::Auth       *)
(***************************************************************************)

\* The backend accepted the user's password.
Login(r, a) ==
    /\ req[r].pc = "idle" /\ mounted
    /\ SetReq(r, [Begin("alias") EXCEPT !.alias = a])
    /\ UNCHANGED <<clock, mounted, identity, tokens, leases, history>>

\* The token is drawn and its life computed once the entity is known.
Drawn(r, e, t) ==
    [req[r] EXCEPT !.pc = "token", !.entity = e, !.token = t, !.issued = clock,
                   !.ttl = CalculateTtl(clock, clock, Config, None)]

\* get_entity_from_alias returns some row that matches.
LookupAlias(r) ==
    /\ req[r].pc = "alias"
    /\ \/ \E x \in aliases, t \in Token \ used :
            /\ x[1] = req[r].alias
            /\ used' = used \cup {t}
            /\ SetReq(r, Drawn(r, x[2], t))
       \/ /\ \A x \in aliases : x[1] # req[r].alias
          /\ Done(r)
          /\ UNCHANGED used
    /\ UNCHANGED <<clock, mounted, identity, tokens, leases,
                   given, revoked, abandoned, disturbed, faults>>

CreateToken(r) ==
    /\ req[r].pc = "token"
    /\ tokens' = tokens \cup {[id |-> req[r].token, entity |-> req[r].entity,
                               issued_at |-> req[r].issued,
                               expires_at |-> req[r].issued + req[r].ttl]}
    /\ Goto(r, "register")
    /\ UNCHANGED <<clock, mounted, identity, leases, history>>

NewLease(r) == [token |-> req[r].token, issued_at |-> req[r].issued,
                expires_at |-> req[r].issued + req[r].ttl]

\* Mutant: no foreign key from LEASES to MOUNTS.
RegisterUnchecked(r) ==
    /\ req[r].pc = "register"
    /\ leases' = leases \cup {NewLease(r)}
    /\ given' = given \cup {req[r].token}
    /\ Done(r)
    /\ UNCHANGED <<clock, mounted, identity, tokens, used, revoked, abandoned, disturbed, faults>>

\* The foreign key refuses the lease if the mount is gone: the client gets an
\* error, and the token stays until it expires.
Register(r) ==
    /\ req[r].pc = "register"
    /\ \/ /\ mounted
          /\ leases' = leases \cup {NewLease(r)}
          /\ given' = given \cup {req[r].token}
       \/ /\ ~ mounted
          /\ UNCHANGED <<leases, given>>
    /\ Done(r)
    /\ UNCHANGED <<clock, mounted, identity, tokens, used, revoked, abandoned, disturbed, faults>>

-----------------------------------------------------------------------------
(***************************************************************************)
(* Renewal                                                                 *)
(***************************************************************************)

\* Mutant: the TTL goes to the backend as it was asked for.
BeginRenewUncapped(r, le, ttl) ==
    /\ req[r].pc = "idle" /\ mounted
    /\ SetReq(r, [Begin("renew") EXCEPT !.token = le.token, !.issued = le.issued_at,
                                        !.ttl = RequestedTtl(Config, ttl)])
    /\ UNCHANGED <<clock, mounted, identity, tokens, leases, history>>

BeginRenew(r, le, ttl) ==
    /\ req[r].pc = "idle" /\ mounted
    /\ SetReq(r, [Begin("renew") EXCEPT !.token = le.token, !.issued = le.issued_at,
                                        !.ttl = CalculateTtl(clock, le.issued_at, Config, ttl)])
    /\ UNCHANGED <<clock, mounted, identity, tokens, leases, history>>

\* Mutant: INSERT OR REPLACE.
UpsertToken(t, expires_at) ==
    tokens' = {x \in tokens : x.id # t} \cup
              {[id |-> t, entity |-> e, issued_at |-> clock, expires_at |-> expires_at] : e \in entities}

\* TokenRepo::renew: no row, no change, and handle_token_renewal does not look.
UpdateToken(t, expires_at) ==
    tokens' = {IF x.id = t THEN [x EXCEPT !.expires_at = expires_at] ELSE x : x \in tokens}

\* handle_token_renewal reads the clock again; so does renew_lease_entry.
RenewToken(r) ==
    /\ req[r].pc = "renew"
    /\ UpdateToken(req[r].token, clock + req[r].ttl)
    /\ SetReq(r, [req[r] EXCEPT !.pc = "write",
            !.ttl = clock + CalculateTtl(clock, req[r].issued, Config, req[r].ttl)])
    /\ UNCHANGED <<clock, mounted, identity, leases, history>>

\* Here ttl is the new expiry of the lease.
WriteLease(r) ==
    /\ req[r].pc = "write"
    /\ leases' = {IF x.token = req[r].token THEN [x EXCEPT !.expires_at = req[r].ttl] ELSE x : x \in leases}
    /\ Done(r)
    /\ UNCHANGED <<clock, mounted, identity, tokens, history>>

-----------------------------------------------------------------------------
(***************************************************************************)
(* Revocation, one lease or all of the mount, and the end of the mount     *)
(***************************************************************************)

BeginRevoke(r, le) ==
    /\ req[r].pc = "idle"
    /\ SetReq(r, [Begin("revoke") EXCEPT !.send = {le.token}])
    /\ UNCHANGED <<clock, mounted, identity, tokens, leases, history>>

BeginDisable(r) ==
    /\ req[r].pc = "idle" /\ mounted
    /\ SetReq(r, [Begin("disable") EXCEPT !.send = {x.token : x \in leases}])
    /\ UNCHANGED <<clock, mounted, identity, tokens, leases, history>>

\* handle_token_revocation
RevokeToken(r, t) ==
    /\ t \in req[r].send
    /\ tokens' = {x \in tokens : x.id # t}
    /\ revoked' = revoked \cup {t}
    /\ SetReq(r, [req[r] EXCEPT !.send = @ \ {t}, !.delete = @ \cup {t}])
    /\ UNCHANGED <<clock, mounted, identity, leases, used, given, abandoned, disturbed, faults>>

\* The request fails; after the last attempt the lease is deleted nevertheless.
RevokeFails(r, t) ==
    /\ t \in req[r].send
    /\ faults < MaxFaults
    /\ faults' = faults + 1
    /\ \/ /\ SetReq(r, [req[r] EXCEPT !.send = @ \ {t}])
          /\ UNCHANGED abandoned
       \/ /\ SetReq(r, [req[r] EXCEPT !.send = @ \ {t}, !.delete = @ \cup {t}])
          /\ abandoned' = abandoned \cup {t}
    /\ UNCHANGED <<clock, mounted, identity, tokens, leases, used, given, revoked, disturbed>>

DeleteLease(r, t) ==
    /\ t \in req[r].delete
    /\ leases' = {x \in leases : x.token # t}
    /\ SetReq(r, [req[r] EXCEPT !.delete = @ \ {t}])
    /\ UNCHANGED <<clock, mounted, identity, tokens, history>>

Revoked(r) ==
    /\ req[r].pc = "revoke"
    /\ req[r].send = {} /\ req[r].delete = {}
    /\ Done(r)
    /\ UNCHANGED <<clock, mounted, identity, tokens, leases, history>>

\* Mutant: ON DELETE CASCADE from MOUNTS to LEASES.
DeleteMountCascade(r) ==
    /\ req[r].pc = "disable"
    /\ req[r].send = {} /\ req[r].delete = {}
    /\ mounted' = FALSE
    /\ leases' = {}
    /\ aliases' = {}
    /\ Done(r)
    /\ UNCHANGED <<clock, entities, policies, attached, tokens, history>>

\* A mount with leases is not deleted; its aliases go with it.
DeleteMount(r) ==
    /\ req[r].pc = "disable"
    /\ req[r].send = {} /\ req[r].delete = {}
    /\ \/ /\ leases = {}
          /\ mounted' = FALSE
          /\ aliases' = {}
       \/ /\ leases # {}
          /\ UNCHANGED <<mounted, aliases>>
    /\ Done(r)
    /\ UNCHANGED <<clock, entities, policies, attached, tokens, leases, history>>

-----------------------------------------------------------------------------
(***************************************************************************)
(* generate_root_token: the errors of its first three queries are ignored  *)
(***************************************************************************)

BeginRootToken(r) ==
    /\ req[r].pc = "idle"
    /\ SetReq(r, Begin("root_policy"))
    /\ UNCHANGED <<clock, mounted, identity, tokens, leases, history>>

\* Mutant: what exists is taken to be attached.
CreateRootPolicyOnce(r) ==
    /\ req[r].pc = "root_policy"
    /\ policies' = policies \cup {RootPolicy}
    /\ Goto(r, IF RootPolicy \in policies /\ RootEntity \in entities
               THEN "root_token" ELSE "root_entity")
    /\ UNCHANGED <<clock, mounted, entities, aliases, attached, tokens, leases, history>>

CreateRootPolicy(r) ==
    /\ req[r].pc = "root_policy"
    /\ policies' = policies \cup {RootPolicy}
    /\ Goto(r, "root_entity")
    /\ UNCHANGED <<clock, mounted, entities, aliases, attached, tokens, leases, history>>

CreateRootEntity(r) ==
    /\ req[r].pc = "root_entity"
    /\ entities' = entities \cup {RootEntity}
    /\ Goto(r, "root_attach")
    /\ UNCHANGED <<clock, mounted, aliases, policies, attached, tokens, leases, history>>

AttachRootPolicy(r) ==
    /\ req[r].pc = "root_attach"
    /\ attached' = IF RootEntity \in entities /\ RootPolicy \in policies
                   THEN attached \cup {<<RootEntity, RootPolicy>>} ELSE attached
    /\ Goto(r, "root_token")
    /\ UNCHANGED <<clock, mounted, entities, aliases, policies, tokens, leases, history>>

RootQueryFails(r) ==
    /\ faults < MaxFaults
    /\ faults' = faults + 1
    /\ disturbed' = TRUE
    /\ \/ req[r].pc = "root_policy" /\ Goto(r, "root_entity")
       \/ req[r].pc = "root_entity" /\ Goto(r, "root_attach")
       \/ req[r].pc = "root_attach" /\ Goto(r, "root_token")
    /\ UNCHANGED <<clock, mounted, identity, tokens, leases, used, given, revoked, abandoned>>

\* The root token has no lease and does not expire.
CreateRootToken(r) ==
    /\ req[r].pc = "root_token"
    /\ \/ \E t \in Token \ used :
            /\ RootEntity \in entities
            /\ used' = used \cup {t}
            /\ given' = given \cup {t}
            /\ tokens' = tokens \cup {[id |-> t, entity |-> RootEntity, issued_at |-> clock,
                                       expires_at |-> None]}
       \/ /\ RootEntity \notin entities
          /\ UNCHANGED <<used, given, tokens>>
    /\ Done(r)
    /\ UNCHANGED <<clock, mounted, identity, leases, revoked, abandoned, disturbed, faults>>

-----------------------------------------------------------------------------
\* No request takes longer than RequestTime.
Tick ==
    /\ clock < MaxTime
    /\ \A r \in Request : req[r].pc # "idle" => clock < req[r].since + RequestTime
    /\ clock' = clock + 1
    /\ UNCHANGED <<mounted, identity, tokens, leases, req, history>>

\* A query fails; or the server's timeout, or a client that disconnects, drops
\* the lease registration layer.
Cancel(r) ==
    /\ req[r].pc # "idle"
    /\ faults < MaxFaults
    /\ faults' = faults + 1
    /\ Done(r)
    /\ UNCHANGED <<clock, mounted, identity, tokens, leases, used, given, revoked, abandoned, disturbed>>

Administer ==
    \/ Mount
    \/ \E e \in Entity : CreateEntity(e)
    \/ \E p \in Policy : CreatePolicy(p) \/ DeletePolicy(p)
    \/ \E e \in Entity, p \in Policy : AttachPolicy(e, p) \/ RemovePolicy(e, p)
    \/ \E e \in Entity, a \in Alias : AttachAlias(e, a) \/ RemoveAlias(e, a)

RequestStep(r) ==
    \/ \E a \in Alias : Login(r, a)
    \/ LookupAlias(r) \/ CreateToken(r) \/ Register(r)
    \/ \E le \in leases, ttl \in RenewTtls : BeginRenew(r, le, ttl)
    \/ RenewToken(r) \/ WriteLease(r)
    \/ \E le \in leases : BeginRevoke(r, le)
    \/ BeginDisable(r)
    \/ \E t \in Token : RevokeToken(r, t) \/ RevokeFails(r, t) \/ DeleteLease(r, t)
    \/ Revoked(r) \/ DeleteMount(r)
    \/ BeginRootToken(r) \/ CreateRootPolicy(r) \/ CreateRootEntity(r) \/ AttachRootPolicy(r)
    \/ RootQueryFails(r) \/ CreateRootToken(r)
    \/ Cancel(r)

Next == Administer \/ Tick \/ \E r \in Request : RequestStep(r)

Spec == Init /\ [][Next]_vars

-----------------------------------------------------------------------------
(***************************************************************************)
(* Properties                                                              *)
(***************************************************************************)

\* A token that was revoked never comes back, although renewals that read its
\* lease before may be on their way (handle_token_renewal).
RevokedIsFinal == \A x \in tokens : x.id \notin revoked

\* A token that a client got through a login has a lease as long as it is
\* stored, unless the expiration manager gave it up: what revokes leases
\* revokes every such token (create before register in the Auth branch).
GivenHasLease ==
    \A x \in tokens : x.id \in given /\ x.expires_at # None =>
        x.id \in abandoned \/ \E le \in leases : le.token = x.id

\* Disabling the auth mount ends the sessions that logins through it began,
\* however logins, renewals and the disable interleave (remove_mount).
DisableEndsSessions ==
    ~ mounted => \A x \in tokens : x.id \in given /\ x.expires_at # None => x.id \in abandoned

\* However often it is renewed, a token is valid no longer than max_lease_ttl
\* and the time that one request takes, since handle_token_renewal reads the
\* clock again.  A renewal after that only writes an expiry that is past.
TokenLifetimeBounded ==
    \A x \in tokens :
        \/ x.expires_at = None
        \/ x.expires_at <= clock
        \/ x.expires_at <= x.issued_at + Config.max_lease_ttl + RequestTime

\* The root token that an unseal hands out has the root policy, however many
\* earlier unseals ended halfway (generate_root_token ignores what exists).
RootTokenWorks ==
    \A x \in tokens : x.expires_at = None /\ ~ disturbed => RootPolicy \in Policies(x.id)
=============================================================================
