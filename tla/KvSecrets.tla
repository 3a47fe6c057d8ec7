------------------------------ MODULE KvSecrets ------------------------------
(***************************************************************************)
(* One mount of the versioned KV backend: its tables SECRETS and CONFIG,   *)
(* and the requests to it.  Every query of a handler is a step of its own; *)
(* the requests to one key, and to the configuration, interleave freely.   *)
(*                                                                         *)
(* Every add stores a datum of its own, so that data tell adds apart.      *)
(***************************************************************************)
EXTENDS Naturals, FiniteSets

CONSTANTS
    Request,        \* requests that can be in progress at once
    Key,            \* keys
    Data,           \* what the adds store, one each
    Limits,         \* max_versions that operators set
    DefaultLimit,   \* DEFAULT_MAX_VERSIONS
    None,           \* no value
    MaxVersion,     \* bound: versions that requests ask for
    MaxFaults       \* bound: how many queries fail or requests end early

ASSUME KvAssumption ==
    /\ IsFiniteSet(Request)
    /\ None \notin Data /\ None \notin Key
    /\ Limits \subseteq Nat
    /\ DefaultLimit \in Nat \ {0}
    /\ MaxVersion \in Nat
    /\ MaxFaults \in Nat

VARIABLES
    secrets,        \* SECRETS
    config,         \* max_versions of the row of CONFIG, or None
    req,            \* the requests in progress
    \* history
    used,           \* data that were submitted
    acked,          \* adds that were answered with success
    limit,          \* max_versions of the last prune of each key
    unpruned,       \* adds to each key that ended between insert and prune
    faults          \* how many faults happened

history == <<used, acked, limit, unpruned, faults>>
vars    == <<secrets, config, req, history>>

-----------------------------------------------------------------------------
Secret == [key : Key, version : Nat, value : Data \cup {None},
           deleted : BOOLEAN, destroyed : BOOLEAN]

Add == [key : Key, version : Nat, datum : Data]

\* The value of pc is the next query of the handler:
\*   add_secret                  insert, load, default, prune, answer;
\*   read_config                 load, default, with no key;
\*   read_secret                 get;
\*   soft and hard delete, undelete     update, for the versions in todo.
Handler == [pc      : {"idle", "insert", "load", "default", "prune", "answer", "get", "update"},
            key     : Key \cup {None},
            version : Nat,
            datum   : Data \cup {None},
            max     : Nat,
            op      : {"none", "delete", "undelete", "destroy"},
            todo    : SUBSET Nat]
Idle == [pc |-> "idle", key |-> None, version |-> 0, datum |-> None,
         max |-> 0, op |-> "none", todo |-> {}]

TypeOK ==
    /\ secrets \subseteq Secret
    /\ config \in Nat \cup {None}
    /\ req \in [Request -> Handler]
    /\ used \subseteq Data
    /\ acked \subseteq Add
    /\ limit \in [Key -> Nat]
    /\ unpruned \in [Key -> Nat]
    /\ faults \in Nat

Init ==
    /\ secrets = {}
    /\ config = None
    /\ req = [r \in Request |-> Idle]
    /\ used = {}
    /\ acked = {}
    /\ limit = [k \in Key |-> 0]
    /\ unpruned = [k \in Key |-> 0]
    /\ faults = 0

Rows(k) == {x \in secrets : x.key = k}
Versions(k) == {x.version : x \in Rows(k)}

\* version_metadata: an aggregate over no rows is one row of NULLs, which
\* decode as 0.
IsMaxVersion(k, v) ==
    \/ Rows(k) = {} /\ v = 0
    \/ v \in Versions(k) /\ \A w \in Versions(k) : w <= v

SetReq(r, h) == req' = [req EXCEPT ![r] = h]
Goto(r, pc) == SetReq(r, [req[r] EXCEPT !.pc = pc])
Done(r) == SetReq(r, Idle)

-----------------------------------------------------------------------------
(***************************************************************************)
(* add_secret                                                              *)
(***************************************************************************)

BeginAdd(r, k, d) ==
    /\ req[r].pc = "idle"
    /\ d \notin used
    /\ used' = used \cup {d}
    /\ \E v \in Versions(k) \cup {0} :
          /\ IsMaxVersion(k, v)
          /\ SetReq(r, [Idle EXCEPT !.pc = "insert", !.key = k, !.version = v + 1, !.datum = d])
    /\ UNCHANGED <<secrets, config, acked, limit, unpruned, faults>>

NewSecret(r) == [key |-> req[r].key, version |-> req[r].version, value |-> req[r].datum,
                 deleted |-> FALSE, destroyed |-> FALSE]

\* Mutant: INSERT OR IGNORE, since insert's answer is not looked at.
InsertOrIgnore(r) ==
    /\ req[r].pc = "insert"
    /\ \/ /\ req[r].version \notin Versions(req[r].key)
          /\ secrets' = secrets \cup {NewSecret(r)}
       \/ /\ req[r].version \in Versions(req[r].key)
          /\ UNCHANGED secrets
    /\ Goto(r, "load")
    /\ UNCHANGED <<config, history>>

\* The primary key refuses a version that another add took meanwhile.
Insert(r) ==
    /\ req[r].pc = "insert"
    /\ \/ /\ req[r].version \notin Versions(req[r].key)
          /\ secrets' = secrets \cup {NewSecret(r)}
          /\ Goto(r, "load")
       \/ /\ req[r].version \in Versions(req[r].key)
          /\ Done(r)
          /\ UNCHANGED secrets
    /\ UNCHANGED <<config, history>>

\* With the configuration, an add goes on and a read_config is answered.
Configured(r, n) ==
    IF req[r].key = None THEN Done(r)
    ELSE SetReq(r, [req[r] EXCEPT !.pc = "prune", !.max = n])

\* config.load ...
LoadConfig(r) ==
    /\ req[r].pc = "load"
    /\ IF config = None THEN Goto(r, "default") ELSE Configured(r, config)
    /\ UNCHANGED <<secrets, config, history>>

\* ... which stores the default if it found no row.
StoreDefault(r) ==
    /\ req[r].pc = "default"
    /\ config' = DefaultLimit
    /\ Configured(r, DefaultLimit)
    /\ UNCHANGED <<secrets, history>>

\* Mutant: < for <=.
PruneTooFew(r) ==
    /\ req[r].pc = "prune"
    /\ LET k == req[r].key
           n == req[r].max
       IN  /\ secrets' = {x \in secrets : ~ (x.key = k /\ \E y \in Rows(k) : x.version + n < y.version)}
           /\ limit' = [limit EXCEPT ![k] = n]
    /\ Goto(r, "answer")
    /\ UNCHANGED <<config, used, acked, unpruned, faults>>

\* DELETE ... WHERE version <= MAX(version) - max_versions
Prune(r) ==
    /\ req[r].pc = "prune"
    /\ LET k == req[r].key
           n == req[r].max
       IN  /\ secrets' = {x \in secrets : ~ (x.key = k /\ \E y \in Rows(k) : x.version + n <= y.version)}
           /\ limit' = [limit EXCEPT ![k] = n]
    /\ Goto(r, "answer")
    /\ UNCHANGED <<config, used, acked, unpruned, faults>>

\* The metadata is read again for the answer, which is a success.
Answer(r) ==
    /\ req[r].pc = "answer"
    /\ acked' = acked \cup {[key |-> req[r].key, version |-> req[r].version, datum |-> req[r].datum]}
    /\ Done(r)
    /\ UNCHANGED <<secrets, config, used, limit, unpruned, faults>>

-----------------------------------------------------------------------------
(***************************************************************************)
(* Configuration and reads                                                 *)
(***************************************************************************)

SetConfig(n) ==
    /\ config' = n
    /\ UNCHANGED <<secrets, req, history>>

BeginReadConfig(r) ==
    /\ req[r].pc = "idle"
    /\ SetReq(r, [Idle EXCEPT !.pc = "load"])
    /\ UNCHANGED <<secrets, config, history>>

\* A read that names no version asks for the newest one.
BeginRead(r, k) ==
    /\ req[r].pc = "idle"
    /\ \E v \in Versions(k) \cup {0} :
          /\ IsMaxVersion(k, v)
          /\ SetReq(r, [Idle EXCEPT !.pc = "get", !.key = k, !.version = v])
    /\ UNCHANGED <<secrets, config, history>>

\* The answer is the row or, if there is none, an error.
Get(r) ==
    /\ req[r].pc = "get"
    /\ Done(r)
    /\ UNCHANGED <<secrets, config, history>>

-----------------------------------------------------------------------------
(***************************************************************************)
(* Soft delete, undelete, hard delete                                      *)
(***************************************************************************)

BeginUpdate(r, k, op, versions) ==
    /\ req[r].pc = "idle"
    /\ versions # {}
    /\ SetReq(r, [Idle EXCEPT !.pc = "update", !.key = k, !.op = op, !.todo = versions])
    /\ UNCHANGED <<secrets, config, history>>

\* Mutant: undelete has no condition on destroyed.
UpdatedAnyRow(op, x) ==
    CASE op = "delete"   -> [x EXCEPT !.deleted = TRUE]
      [] op = "undelete" -> [x EXCEPT !.deleted = FALSE]
      [] op = "destroy"  -> [x EXCEPT !.destroyed = TRUE, !.deleted = TRUE, !.value = None]

\* What the UPDATE of an operation makes of a row
Updated(op, x) ==
    CASE op = "delete"   -> [x EXCEPT !.deleted = TRUE]
      [] op = "undelete" -> [x EXCEPT !.deleted = x.destroyed]
      [] op = "destroy"  -> [x EXCEPT !.destroyed = TRUE, !.deleted = TRUE, !.value = None]

\* Mutant: a hard delete removes the row.
UpdateOrRemove(r, v) ==
    /\ req[r].pc = "update"
    /\ v \in req[r].todo
    /\ LET hit(x) == x.key = req[r].key /\ x.version = v
       IN  secrets' = IF req[r].op = "destroy" THEN {x \in secrets : ~ hit(x)}
                      ELSE {IF hit(x) THEN Updated(req[r].op, x) ELSE x : x \in secrets}
    /\ IF req[r].todo = {v} THEN Done(r) ELSE SetReq(r, [req[r] EXCEPT !.todo = @ \ {v}])
    /\ UNCHANGED <<config, history>>

\* One UPDATE for each version, in the order of the request.  An error is
\* reported with the versions that were not found, and the loop goes on.
Update(r, v) ==
    /\ req[r].pc = "update"
    /\ v \in req[r].todo
    /\ LET hit(x) == x.key = req[r].key /\ x.version = v
       IN  \/ /\ secrets' = {IF hit(x) THEN Updated(req[r].op, x) ELSE x : x \in secrets}
              /\ UNCHANGED faults
           \/ /\ faults < MaxFaults
              /\ faults' = faults + 1
              /\ UNCHANGED secrets
    /\ IF req[r].todo = {v} THEN Done(r) ELSE SetReq(r, [req[r] EXCEPT !.todo = @ \ {v}])
    /\ UNCHANGED <<config, used, acked, limit, unpruned>>

-----------------------------------------------------------------------------
\* A query fails: the handler returns with what it did so far.
Cancel(r) ==
    /\ req[r].pc # "idle"
    /\ faults < MaxFaults
    /\ faults' = faults + 1
    /\ unpruned' = IF req[r].pc \in {"load", "default", "prune"} /\ req[r].key # None
                   THEN [unpruned EXCEPT ![req[r].key] = @ + 1] ELSE unpruned
    /\ Done(r)
    /\ UNCHANGED <<secrets, config, used, acked, limit>>

Next ==
    \/ \E n \in Limits : SetConfig(n)
    \/ \E r \in Request :
          \/ \E k \in Key, d \in Data : BeginAdd(r, k, d)
          \/ Insert(r) \/ LoadConfig(r) \/ StoreDefault(r) \/ Prune(r) \/ Answer(r)
          \/ BeginReadConfig(r)
          \/ \E k \in Key : BeginRead(r, k)
          \/ Get(r)
          \/ \E k \in Key, op \in {"delete", "undelete", "destroy"}, vs \in SUBSET (1..MaxVersion) :
                BeginUpdate(r, k, op, vs)
          \/ \E v \in 1..MaxVersion : Update(r, v)
          \/ Cancel(r)

Spec == Init /\ [][Next]_vars

-----------------------------------------------------------------------------
(***************************************************************************)
(* Properties                                                              *)
(***************************************************************************)

\* An add whose row is not yet pruned after
Unfinished(k) == {r \in Request : req[r].pc \in {"load", "default", "prune"} /\ req[r].key = k}

\* However adds and changes of the configuration interleave, a key has no more
\* versions than its last prune allowed, one for each add in progress and one
\* for each add that ended before its prune (prune_old_versions).
VersionsBounded ==
    \A k \in Key :
        Cardinality(Versions(k)) <= limit[k] + Cardinality(Unfinished(k)) + unpruned[k]

\* The rows of key k have a version newer than v by some max_versions.
Outdated(k, v) == \E n \in Limits \cup {DefaultLimit} : \E w \in Versions(k) : v + n <= w

\* A write that was acknowledged is not lost: its version holds what the client
\* sent until it is destroyed, and goes only when max_versions newer ones
\* exist.  Two concurrent adds never share a version (add_secret computes it
\* before it inserts).  With max_versions = 0 a version would be pruned at once.
AcknowledgedKept ==
    0 \notin Limits =>
        \A a \in acked :
            \/ \E x \in Rows(a.key) : x.version = a.version /\ x.value \in {a.datum, None}
            \/ Outdated(a.key, a.version)

\* A read of the newest version finds it, unless max_versions newer ones were
\* added while it was in progress (read_secret asks for the version first and
\* for the row then).
LatestFound ==
    0 \notin Limits =>
        \A r \in Request :
            req[r].pc = "get" /\ req[r].version # 0 =>
                \/ req[r].version \in Versions(req[r].key)
                \/ Outdated(req[r].key, req[r].version)

\* A version keeps its value until it is destroyed, and a destroyed one never
\* changes again: no add takes its number while it is there, and it cannot be
\* recovered (recover, the CHECK on SECRETS).
DestroyedIsFinal ==
    [][\A x \in secrets, y \in secrets' :
          x.key = y.key /\ x.version = y.version =>
              /\ y.value \in {x.value, None}
              /\ x.destroyed => y = x]_vars
=============================================================================
