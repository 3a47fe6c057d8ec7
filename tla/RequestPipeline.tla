--------------------------- MODULE RequestPipeline ---------------------------
(***************************************************************************)
(* A request on its way through the layers of the server to a handler:     *)
(* the storage state is noted, the namespace looked up, the token's        *)
(* policies looked up and matched with the path, the mount looked up, and  *)
(* the route's own conditions checked.  Each look-up is a step of its own, *)
(* and what it reads is changed by other requests at any time: tokens end, *)
(* policies, namespaces and mounts come and go, the storage is sealed.     *)
(*                                                                         *)
(* Tokens and namespaces are named by their rows: a new one never has the  *)
(* id of an old one, but a new namespace can have the name of an old one.  *)
(* Not followed here: what a handler does, and the lease layer (see        *)
(* ExpirationManager and AuthTokens).  Mount paths are free of the         *)
(* wildcards of LIKE.                                                      *)
(***************************************************************************)
EXTENDS Policies, FiniteSets

CONSTANTS
    Request,        \* requests that can be in progress at once
    Input,          \* what requests ask for
    Namespace, Root,
    NameOf,         \* namespace -> its name
    ParentOf,       \* namespace -> its parent; Root's is None
    Token,
    TokenSpace,     \* token -> the namespace of its entity
    Policy,
    RulesOf,        \* policy -> its rules
    PolicySpace,    \* policy -> its namespace
    Attached,       \* pairs of a token and a policy: ENTITY_POLICIES, joined
                    \* with the token's entity
    Mount,
    MountSpace,     \* mount -> its namespace
    MountPath,      \* mount -> its path
    Slash,          \* the character /
    SysPath,        \* SYSTEM_MOUNT_PATH
    Initially,      \* the namespaces, tokens, policies and mounts at the beginning
    None,
    MaxChanges      \* bound: how often other requests change something

States == {"uninitialized", "sealed", "unsealed"}
Operations == {"create", "read", "update", "delete", "revoke", "renew"}

\* What the rest of the path, behind the mount's, is a route for.
Endpoints == {"init", "unseal", "seal", "status", "system", "login", "secret", "unknown"}

Statuses == {200, 400, 401, 403, 404, 500}

\* Names are not empty and free of slashes (VALID_NAME), and so are those of a
\* request, which its header is split into.
Name == {n \in Seq(STRING) : n # <<>> /\ \A k \in 1 .. Len(n) : n[k] # Slash}

\* The constraints of NAMESPACES between two rows: siblings have different
\* names, and nothing but the root has its name.
Distinct(n, k) ==
    /\ ParentOf[n] = ParentOf[k] /\ NameOf[n] = NameOf[k] => n = k
    /\ NameOf[n] = NameOf[Root] => n = Root

ASSUME PipelineAssumption ==
    /\ Root \in Namespace /\ IsFiniteSet(Namespace)
    /\ ParentOf \in [Namespace -> Namespace \cup {None}]
    /\ \A n \in Namespace : ParentOf[n] = None <=> n = Root
    /\ \E depth \in [Namespace -> 1 .. Cardinality(Namespace)] :
          \A n \in Namespace \ {Root} : depth[ParentOf[n]] < depth[n]
    /\ \A n \in Namespace : NameOf[n] \in Name
    /\ Slash \in STRING /\ Slash # Star
    /\ TokenSpace \in [Token -> Namespace]
    /\ PolicySpace \in [Policy -> Namespace]
    /\ Attached \subseteq Token \X Policy
    /\ \A a \in Attached : TokenSpace[a[1]] = PolicySpace[a[2]]
    /\ MountSpace \in [Mount -> Namespace]
    /\ \A p \in Policy : RulesOf[p] \subseteq [path : Seq(STRING), ops : SUBSET Operations]
    /\ None \notin Mount \cup Namespace \cup Token /\ None \notin Statuses
    /\ \A i \in Input :
          /\ i.endpoint \in Endpoints /\ i.token \in Token \cup {None} /\ i.op \in Operations
          /\ i.path \in Seq(STRING) /\ \A k \in DOMAIN i.names : i.names[k] \in Name
          /\ i.names \in Seq(Seq(STRING))
    /\ Initially.spaces \subseteq Namespace
    /\ \A n \in Initially.spaces : ParentOf[n] \in Initially.spaces \cup {None}
    /\ \A n, k \in Initially.spaces : Distinct(n, k)
    /\ Initially.tokens \subseteq {t \in Token : TokenSpace[t] \in Initially.spaces}
    /\ Initially.policies \subseteq {p \in Policy : PolicySpace[p] \in Initially.spaces}
    /\ Initially.mounts \subseteq {m \in Mount : MountSpace[m] \in Initially.spaces}
    /\ MaxChanges \in Nat

VARIABLES
    storage,    \* EncryptedPool::state()
    spaces,     \* NAMESPACES
    former,     \* namespaces and tokens that are gone: their ids are not used again
    tokens,     \* TOKENS that have not expired
    policies,   \* POLICIES
    attached,   \* ENTITY_POLICIES, joined with the tokens
    mounts,     \* MOUNTS
    routed,     \* the router's backend_lookup, without the system backend
    system,     \* whether the system backend is in backend_lookup
    req,        \* the requests in progress
    changes     \* how often something changed

tables == <<spaces, former, tokens, policies, attached, mounts>>
router == <<routed, system>>
vars   == <<storage, tables, router, req, changes>>

-----------------------------------------------------------------------------
(***************************************************************************)
(* Requests                                                                *)
(***************************************************************************)

\* pc is the next layer; ns, found and mount are what the look-ups returned; of
\* is the namespace of the first policy found, whose path is looked up from
\* there to the root (walked, then at); allowed and gone (history) are what was
\* the case when the policies were looked up.
Handler == [pc : {"idle", "namespace", "policies", "walk", "path", "mount", "backend", "route", "done"},
            input   : Input \cup {None},
            seen    : States \cup {None},
            ns      : Namespace \cup {None},
            found   : SUBSET Policy,
            of      : Namespace \cup {None},
            at      : Namespace \cup {None},
            walked  : Seq(Namespace),
            authed  : BOOLEAN,
            mount   : Mount \cup {None},
            status  : Statuses \cup {None},
            allowed : BOOLEAN,      \* whether the token may call the path
            gone    : BOOLEAN]      \* whether the request's namespace was deleted

Idle == [pc |-> "idle", input |-> None, seen |-> None, ns |-> None, found |-> {},
         of |-> None, at |-> None, walked |-> <<>>,
         authed |-> FALSE, mount |-> None, status |-> None,
         allowed |-> FALSE, gone |-> FALSE]

\* Types, the foreign keys of the tables, and what each layer hands on.
TypeOK ==
    /\ storage \in States
    /\ spaces \subseteq Namespace
    /\ former \subseteq (Namespace \ spaces) \cup (Token \ tokens)
    /\ tokens \subseteq {t \in Token : TokenSpace[t] \in spaces}
    /\ policies \subseteq {p \in Policy : PolicySpace[p] \in spaces}
    /\ attached \subseteq {a \in Attached : a[1] \in tokens /\ a[2] \in policies}
    /\ mounts \subseteq {m \in Mount : MountSpace[m] \in spaces}
    /\ \A n \in spaces : ParentOf[n] \in spaces \cup {None}
    /\ routed \subseteq Mount
    /\ system \in BOOLEAN
    /\ req \in [Request -> Handler]
    /\ \A r \in Request :
          /\ req[r].pc # "idle" => req[r].input \in Input /\ req[r].seen \in States
          /\ (req[r].pc \in {"policies", "walk", "path", "mount", "backend"} /\ req[r].seen = "unsealed")
                => req[r].ns \in Namespace
          /\ req[r].pc = "backend" => req[r].mount \in Mount
          /\ req[r].pc = "walk" => req[r].at # None
          /\ req[r].pc \in {"walk", "path"} => req[r].of \in Namespace
          /\ req[r].pc = "done" <=> req[r].status # None
    /\ changes \in 0 .. MaxChanges

Init ==
    /\ storage = "unsealed"
    /\ spaces = Initially.spaces
    /\ former = {}
    /\ tokens = Initially.tokens
    /\ policies = Initially.policies
    /\ attached = {a \in Attached : a[1] \in tokens /\ a[2] \in policies}
    /\ mounts = Initially.mounts
    /\ routed = mounts
    /\ system = TRUE
    /\ req = [r \in Request |-> Idle]
    /\ changes = 0

-----------------------------------------------------------------------------
(***************************************************************************)
(* Names and paths                                                         *)
(***************************************************************************)

\* The namespaces from the root down to n, and their names
Lineage[n \in Namespace] ==
    IF ParentOf[n] = None THEN <<n>> ELSE Append(Lineage[ParentOf[n]], n)

Depth(n) == Len(Lineage[n])

Ancestors(n) == {Lineage[n][k] : k \in 1 .. Depth(n)}

NamesOf(lineage) == [k \in 1 .. Len(lineage) |-> NameOf[lineage[k]]]

\* find_by_path: one join per name; the name of the root is not compared.
Found(n, names) ==
    /\ n \in spaces
    /\ Depth(n) = Len(names)
    /\ \A k \in 2 .. Len(names) : NameOf[Lineage[n][k]] = names[k]

\* The names, with slashes in between
Joined(names) ==
    LET join[i \in 1 .. Len(names)] ==
            IF i = 1 THEN names[1] ELSE join[i - 1] \o <<Slash>> \o names[i]
    IN  IF names = <<>> THEN <<>> ELSE join[Len(names)]

\* Mutant: the namespace and the pattern are joined without a slash.
PrefixedBare(prefix, pattern) == prefix \o pattern

\* The pattern of a policy, below the namespace of the policy.
Prefixed(prefix, pattern) ==
    IF Len(pattern) > 0 /\ pattern[1] = Slash THEN prefix \o pattern
    ELSE prefix \o <<Slash>> \o pattern

\* Mutant: the join does not look at the tokens.
TokenPoliciesStale(t) == {p \in policies : <<t, p>> \in Attached}

\* The rows that lookup_policies joins: nothing for a token that has ended.
TokenPolicies(t) == {p \in policies : t \in tokens /\ <<t, p>> \in attached}

\* longest_prefix
LongestPrefix(m, ns, path) ==
    /\ m \in mounts
    /\ MountSpace[m] = ns
    /\ StartsWith(path, MountPath[m])
    /\ \A k \in mounts : (MountSpace[k] = ns /\ StartsWith(path, MountPath[k]))
                            => Len(MountPath[k]) <= Len(MountPath[m])

-----------------------------------------------------------------------------
(***************************************************************************)
(* What the answer should be                                               *)
(***************************************************************************)

\* A path in namespace n as seen from m, one of its ancestors
RelativePath(m, n, path) ==
    IF m = n THEN path
    ELSE Joined(NamesOf(SubSeq(Lineage[n], Depth(m) + 1, Depth(n)))) \o <<Slash>> \o path

Relative(pattern) ==
    IF Len(pattern) > 0 /\ pattern[1] = Slash THEN SubSeq(pattern, 2, Len(pattern)) ELSE pattern

\* Token t now holds a policy that allows op on path in namespace n: one of a
\* namespace that n lies in, with a pattern that matches what is below it.
MayCall(t, n, path, op) ==
    \E p \in policies :
        /\ t \in tokens
        /\ <<t, p>> \in attached
        /\ PolicySpace[p] \in Ancestors(n)
        /\ \E rule \in RulesOf[p] :
              /\ op \in rule.ops
              /\ Matches(Relative(rule.path), RelativePath(PolicySpace[p], n, path))

-----------------------------------------------------------------------------
(***************************************************************************)
(* The layers                                                              *)
(***************************************************************************)

Update(r, h) == req' = [req EXCEPT ![r] = h]

Answer(r, code) == Update(r, [req[r] EXCEPT !.pc = "done", !.status = code])

\* AuthService: whether the request is authorized is noted, not yet decided on.
Authorized(h, answer) == [h EXCEPT !.pc = "mount", !.authed = answer]

\* LogicalRequestResponseService, StorageStateExtensionService
Arrive(r, i) ==
    /\ req[r].pc = "idle"
    /\ Update(r, [Idle EXCEPT !.pc = "namespace", !.input = i, !.seen = storage])
    /\ UNCHANGED <<storage, tables, router, changes>>

\* EncryptedPool as an Executor: a query while the storage is not unsealed
\* fails with PoolClosed.
Queries(r) == storage = "unsealed"

QueryFails(r) ==
    /\ \/ req[r].pc = "namespace" /\ req[r].seen = "unsealed"
       \/ req[r].pc = "walk"
       \/ req[r].pc = "policies" /\ req[r].seen = "unsealed" /\ req[r].input.token # None
       \/ req[r].pc = "mount" /\ req[r].ns # None /\ ~ StartsWith(req[r].input.path, SysPath)
    /\ storage # "unsealed"
    /\ Answer(r, 500)
    /\ UNCHANGED <<storage, tables, router, changes>>

\* NamespaceExtensionService: only an unsealed server looks namespaces up.
FindNamespace(r) ==
    /\ req[r].pc = "namespace"
    /\ \/ /\ req[r].seen # "unsealed"
          /\ Update(r, [req[r] EXCEPT !.pc = "policies"])
       \/ /\ req[r].seen = "unsealed" /\ Queries(r)
          /\ \/ \E n \in Namespace :
                   /\ Found(n, req[r].input.names)
                   /\ Update(r, [req[r] EXCEPT !.pc = "policies", !.ns = n])
             \/ /\ \A n \in Namespace : ~ Found(n, req[r].input.names)
                /\ Answer(r, 400)
    /\ UNCHANGED <<storage, tables, router, changes>>

\* is_authorized, up to the policies of the token.  The namespace of the
\* first row is taken for that of all.
FindPolicies(r) ==
    /\ req[r].pc = "policies"
    /\ LET i == req[r].input IN
       \/ /\ req[r].seen # "unsealed" \/ i.token = None
          /\ Update(r, Authorized(req[r], FALSE))
       \/ /\ req[r].seen = "unsealed" /\ i.token # None /\ Queries(r)
          /\ LET found == TokenPolicies(i.token)
                 then == [req[r] EXCEPT !.found = found,
                                        !.allowed = MayCall(i.token, req[r].ns, i.path, i.op),
                                        !.gone = req[r].ns \notin spaces]
             IN  \/ /\ found = {}
                    /\ Update(r, Authorized(then, FALSE))
                 \/ \E p \in found :
                       Update(r, [then EXCEPT !.pc = "walk", !.of = PolicySpace[p],
                                              !.at = PolicySpace[p]])
    /\ UNCHANGED <<storage, tables, router, changes>>

\* find_parents, a query for each namespace up to the root.  The walk ends at
\* one that is gone.
Walk(r) ==
    /\ req[r].pc = "walk"
    /\ Queries(r)
    /\ LET n == req[r].at
           next == IF n \in spaces THEN ParentOf[n] ELSE None
       IN  Update(r, [req[r] EXCEPT
               !.walked = IF n \in spaces THEN <<n>> \o @ ELSE @,
               !.at = next,
               !.pc = IF next = None THEN "path" ELSE "walk"])
    /\ UNCHANGED <<storage, tables, router, changes>>

\* The rest of is_authorized: what was walked is put before the patterns, and
\* the names that the request gives before its path.
Authorize(r) ==
    /\ req[r].pc = "path"
    /\ LET prefix == Joined(NamesOf(req[r].walked))
           path == Joined(req[r].input.names) \o <<Slash>> \o req[r].input.path
           rules == {[q EXCEPT !.path = Prefixed(prefix, q.path)] :
                       q \in UNION {RulesOf[p] : p \in {k \in req[r].found : PolicySpace[k] = req[r].of}}}
       IN  Update(r, Authorized(req[r], \E rule \in rules :
                                             RuleAuthorizes(rule, path, {req[r].input.op})))
    /\ UNCHANGED <<storage, tables, router, changes>>

\* Router::route, up to the mount
FindMount(r) ==
    /\ req[r].pc = "mount"
    /\ LET i == req[r].input IN
       \/ /\ StartsWith(i.path, SysPath)
          /\ IF system THEN Update(r, [req[r] EXCEPT !.pc = "route"]) ELSE Answer(r, 500)
       \/ /\ ~ StartsWith(i.path, SysPath) /\ req[r].ns = None
          /\ Answer(r, 401)
       \/ /\ ~ StartsWith(i.path, SysPath) /\ req[r].ns # None /\ Queries(r)
          /\ \/ \E m \in Mount :
                   /\ LongestPrefix(m, req[r].ns, i.path)
                   /\ Update(r, [req[r] EXCEPT !.pc = "backend", !.mount = m])
             \/ /\ \A m \in Mount : ~ LongestPrefix(m, req[r].ns, i.path)
                /\ Answer(r, 404)
    /\ UNCHANGED <<storage, tables, router, changes>>

\* backend_lookup.get
FindBackend(r) ==
    /\ req[r].pc = "backend"
    /\ IF req[r].mount \in routed THEN Update(r, [req[r] EXCEPT !.pc = "route"]) ELSE Answer(r, 500)
    /\ UNCHANGED <<storage, tables, router, changes>>

\* RouteConfig: whether a route is for authenticated requests only, and the
\* storage states in which it is open
DefaultConfig == [authenticated |-> TRUE, state |-> {"unsealed"}]
Unauthenticated == [DefaultConfig EXCEPT !.authenticated = FALSE]

ConfigOf(e) ==
    CASE e = "init"              -> [Unauthenticated EXCEPT !.state = {"uninitialized"}]
      [] e = "unseal"            -> [Unauthenticated EXCEPT !.state = {"sealed"}]
      [] e = "status"            -> [Unauthenticated EXCEPT !.state = States]
      [] e \in {"seal", "login"} -> Unauthenticated
      [] OTHER                   -> DefaultConfig

\* The operations that the method router of an endpoint has a route for
OperationsOf(e) ==
    CASE e \in {"init", "unseal", "seal"} -> {"create", "update"}
      [] e = "status"                     -> {"read"}
      [] e = "unknown"                    -> {}
      [] OTHER                            -> Operations

\* Route::call, up to the handler
Refusal(h, config) ==
    IF h.seen \notin config.state THEN 403
    ELSE IF config.authenticated /\ ~ h.authed THEN 401 ELSE 200

\* The routers of the backend; handle_seal has a condition of its own, on the
\* namespace.
CallRoute(r) ==
    /\ req[r].pc = "route"
    /\ LET e == req[r].input.endpoint
           status == Refusal(req[r], ConfigOf(e)) IN
       Answer(r, IF req[r].input.op \notin OperationsOf(e) THEN 404
                 ELSE IF e = "seal" /\ status = 200 /\ ParentOf[req[r].ns] # None THEN 403 ELSE status)
    /\ UNCHANGED <<storage, tables, router, changes>>

\* The answer is sent.
Reply(r) ==
    /\ req[r].pc = "done"
    /\ Update(r, Idle)
    /\ UNCHANGED <<storage, tables, router, changes>>

-----------------------------------------------------------------------------
(***************************************************************************)
(* What other requests change                                              *)
(***************************************************************************)

Change ==
    /\ changes < MaxChanges
    /\ changes' = changes + 1
    /\ UNCHANGED req

\* A login: a new token, with the policies that its entity has
CreateToken(t) ==
    /\ t \notin tokens \cup former
    /\ TokenSpace[t] \in spaces
    /\ tokens' = tokens \cup {t}
    /\ \E held \in SUBSET policies :
          attached' = attached \cup (Attached \cap ({t} \X held))
    /\ Change
    /\ UNCHANGED <<storage, spaces, former, policies, mounts, router>>

\* The token is revoked or expires, or its entity is deleted.
EndToken(t) ==
    /\ t \in tokens
    /\ tokens' = tokens \ {t}
    /\ former' = former \cup {t}
    /\ attached' = {a \in attached : a[1] # t}
    /\ Change
    /\ UNCHANGED <<storage, spaces, policies, mounts, router>>

\* handle_attach_entity_policy and handle_remove_entity_policy
Attach(t, p) ==
    /\ <<t, p>> \in Attached
    /\ t \in tokens /\ p \in policies
    /\ attached' = IF <<t, p>> \in attached THEN attached \ {<<t, p>>} ELSE attached \cup {<<t, p>>}
    /\ Change
    /\ UNCHANGED <<storage, spaces, former, tokens, policies, mounts, router>>

\* handle_create_policy: the row's namespace must exist.
CreatePolicy(p) ==
    /\ p \notin policies
    /\ PolicySpace[p] \in spaces
    /\ policies' = policies \cup {p}
    /\ Change
    /\ UNCHANGED <<storage, spaces, former, tokens, attached, mounts, router>>

\* Mutant: the policy stays attached.
DeletePolicyAlone(p) ==
    /\ p \in policies
    /\ policies' = policies \ {p}
    /\ Change
    /\ UNCHANGED <<storage, spaces, former, tokens, attached, mounts, router>>

\* handle_delete_policy; ENTITY_POLICIES cascades.
DeletePolicy(p) ==
    /\ p \in policies
    /\ policies' = policies \ {p}
    /\ attached' = {a \in attached : a[2] # p}
    /\ Change
    /\ UNCHANGED <<storage, spaces, former, tokens, mounts, router>>

\* The constraints of NAMESPACES, and a new id
MayAdd(n) ==
    /\ n \notin spaces \cup former
    /\ ParentOf[n] \in spaces
    /\ \A k \in spaces : Distinct(n, k)

\* create_namespace_handler
CreateNamespace(n) ==
    /\ MayAdd(n)
    /\ spaces' = spaces \cup {n}
    /\ Change
    /\ UNCHANGED <<storage, former, tokens, policies, attached, mounts, router>>

\* NamespaceRepo::delete: not for the root, nor while there are child
\* namespaces or mounts.
MayDelete(n) ==
    /\ n \in spaces \ {Root}
    /\ \A k \in spaces : ParentOf[k] # n
    /\ \A m \in mounts : MountSpace[m] # n

\* The end of delete_namespace; the tables with a foreign key cascade.
DeleteNamespace(n) ==
    /\ MayDelete(n)
    /\ spaces' = spaces \ {n}
    /\ tokens' = {t \in tokens : TokenSpace[t] # n}
    /\ former' = former \cup {n} \cup (tokens \ tokens')
    /\ policies' = {p \in policies : PolicySpace[p] # n}
    /\ attached' = {a \in attached : a[1] \in tokens' /\ a[2] \in policies'}
    /\ Change
    /\ UNCHANGED <<storage, mounts, router>>

\* The router and MOUNTS change in steps of their own (see Mounts).
ChangeMount(m) ==
    /\ \/ /\ m \in routed
          /\ routed' = routed \ {m}
          /\ UNCHANGED mounts
       \/ /\ m \in mounts \ routed
          /\ routed' = routed \cup {m}
          /\ UNCHANGED mounts
       \/ /\ m \in mounts \ routed
          /\ mounts' = mounts \ {m}
          /\ UNCHANGED routed
       \/ /\ m \notin mounts
          /\ MountSpace[m] \in spaces
          /\ mounts' = mounts \cup {m}
          /\ UNCHANGED routed
    /\ Change
    /\ UNCHANGED <<storage, system, spaces, former, tokens, policies, attached>>

\* The end of seal: clear_mounts, and then mount_system.
ClearMounts ==
    /\ IF system THEN routed' = {} /\ system' = FALSE ELSE system' = TRUE /\ UNCHANGED routed
    /\ Change
    /\ UNCHANGED <<storage, tables>>

\* EncryptedPool::seal and unseal
ChangeState ==
    /\ storage' = IF storage = "unsealed" THEN "sealed" ELSE "unsealed"
    /\ Change
    /\ UNCHANGED <<tables, router>>

-----------------------------------------------------------------------------
Step(r) ==
    \/ QueryFails(r) \/ FindNamespace(r) \/ FindPolicies(r) \/ Walk(r) \/ Authorize(r)
    \/ FindMount(r) \/ FindBackend(r) \/ CallRoute(r) \/ Reply(r)

Environment ==
    \/ \E t \in Token : CreateToken(t) \/ EndToken(t)
    \/ \E a \in Attached : Attach(a[1], a[2])
    \/ \E p \in Policy : CreatePolicy(p) \/ DeletePolicy(p)
    \/ \E n \in Namespace : CreateNamespace(n) \/ DeleteNamespace(n)
    \/ \E m \in Mount : ChangeMount(m)
    \/ ChangeState \/ ClearMounts

Next ==
    \/ \E r \in Request : \E i \in Input : Arrive(r, i)
    \/ \E r \in Request : Step(r)
    \/ Environment

Spec == Init /\ [][Next]_vars

-----------------------------------------------------------------------------
(***************************************************************************)
(* Properties                                                              *)
(***************************************************************************)

\* The path begins with the name of a child of n, one that m lies in, as if it
\* were a path in the child: the two have the same full path, which is what is
\* compared.
ReadsAsChild(n, path, m) ==
    \E child \in Ancestors(m) : ParentOf[child] = n /\ StartsWith(path, NameOf[child] \o <<Slash>>)

\* A handler behind an authenticated route runs only for a token that, at an
\* instant after the request arrived, was valid and held a policy of the
\* request's namespace or of one above it that matches the path: a token or a
\* policy that was removed before the request grants nothing, and nobody is
\* let into a sibling or a parent namespace.  Nothing is said of a request that
\* gives the root another name than its own (find_by_path does not compare that
\* name), of one with a path that reads as if it were in a child namespace that
\* the token belongs to, and of one whose namespace was deleted, and can have
\* been replaced by another of the same name, before the policies were looked
\* up.
HandledOnlyIfAllowed ==
    \A r \in Request :
        (req[r].status = 200 /\ req[r].input.endpoint \in {"system", "secret"}) =>
            \/ req[r].allowed \/ req[r].gone
            \/ req[r].input.names[1] # NameOf[Root]
            \/ ReadsAsChild(req[r].ns, req[r].input.path, req[r].of)

\* The other direction: who is refused by an authenticated route had no such
\* policy, or named the root differently, or a namespace on the way from the
\* policies' one to the root was deleted meanwhile.
RefusedOnlyIfNotAllowed ==
    \A r \in Request :
        (req[r].status = 401 /\ req[r].allowed) =>
            \/ req[r].input.names[1] # NameOf[Root]
            \/ Ancestors(req[r].of) \cap former # {}
=============================================================================
