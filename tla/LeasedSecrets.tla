---------------------------- MODULE LeasedSecrets ----------------------------
(***************************************************************************)
(* What a secrets engine promises to the expiration manager about the      *)
(* secrets it leases: a secret exists once, and a revocation is confirmed  *)
(* only when the secret is gone, for good.  Secrets may come into being or *)
(* vanish without an answer that says so.                                  *)
(***************************************************************************)
CONSTANT Secret

VARIABLES
    secret,     \* "none", "live" or "gone"
    confirmed   \* secrets whose revocation was answered with success

vars == <<secret, confirmed>>

Init ==
    /\ secret = [s \in Secret |-> "none"]
    /\ confirmed = {}

\* Some secrets appear and others vanish at once, in a crash.
Change(born, dead) ==
    /\ \A s \in born : secret[s] = "none"
    /\ \A s \in dead : secret[s] = "live"
    /\ secret' = [s \in Secret |-> IF s \in born THEN "live"
                                   ELSE IF s \in dead THEN "gone" ELSE secret[s]]

\* The answer to a revocation of s.
Confirm(s) ==
    /\ \/ Change({}, {s})
       \/ secret[s] = "gone" /\ UNCHANGED secret
    /\ confirmed' = confirmed \cup {s}

Next ==
    \/ \E born, dead \in SUBSET Secret : Change(born, dead) /\ UNCHANGED confirmed
    \/ \E s \in Secret : Confirm(s)

Spec == Init /\ [][Next]_vars
=============================================================================
