--------------------------- MODULE LeaseLifecycle ---------------------------
(***************************************************************************)
(* What the expiration manager promises about each lease, whatever happens *)
(* to rows, copies of rows, requests and the process: a lease is registered*)
(* once, and ends once.  It ends revoked, or, after MaxRetries failed      *)
(* revocations, abandoned; a revocation that was still under way may yet   *)
(* succeed for an abandoned lease.                                         *)
(***************************************************************************)
EXTENDS Naturals

CONSTANTS Lease, MaxRetries

VARIABLES status, strikes

vars == <<status, strikes>>

Init ==
    /\ status = [l \in Lease |-> "unknown"]
    /\ strikes = [l \in Lease |-> 0]

Become(l, s) == status' = [status EXCEPT ![l] = s]

Begin(l) ==
    /\ status[l] = "unknown"
    /\ Become(l, "active")
    /\ UNCHANGED strikes

Revoke(l) ==
    /\ status[l] \in {"active", "abandoned"}
    /\ Become(l, "revoked")
    /\ UNCHANGED strikes

Abandon(l) ==
    /\ status[l] = "active"
    /\ strikes[l] >= MaxRetries
    /\ Become(l, "abandoned")
    /\ UNCHANGED strikes

\* A revocation fails.  A request that timed out may have revoked the secret
\* of an abandoned lease all the same.
Strike(l) ==
    /\ status[l] # "unknown"
    /\ strikes' = [strikes EXCEPT ![l] = @ + 1]
    /\ \/ UNCHANGED status
       \/ status[l] = "abandoned" /\ Become(l, "revoked")

Next == \E l \in Lease : Begin(l) \/ Revoke(l) \/ Abandon(l) \/ Strike(l)

Spec == Init /\ [][Next]_vars
=============================================================================
