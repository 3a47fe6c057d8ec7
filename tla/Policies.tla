------------------------------ MODULE Policies ------------------------------
(***************************************************************************)
(* Policies as pure functions (covert-types/src/policy.rs).  A path is a   *)
(* sequence of characters; what a character is does not matter, except for *)
(* Star, the wildcard at the end of a pattern.                             *)
(***************************************************************************)
EXTENDS Naturals, Sequences

CONSTANT Star

StartsWith(path, prefix) ==
    /\ Len(prefix) <= Len(path)
    /\ \A i \in 1 .. Len(prefix) : path[i] = prefix[i]

EndsInStar(pattern) == Len(pattern) > 0 /\ pattern[Len(pattern)] = Star

WithoutStar(pattern) == SubSeq(pattern, 1, Len(pattern) - 1)

Matches(pattern, path) ==
    IF EndsInStar(pattern) THEN StartsWith(path, WithoutStar(pattern)) ELSE path = pattern

\* PathPolicy::is_authorized
RuleAuthorizes(rule, path, ops) == Matches(rule.path, path) /\ ops \subseteq rule.ops

\* Policy::is_authorized
PolicyAuthorizes(policy, path, ops) == \E rule \in policy.paths : RuleAuthorizes(rule, path, ops)

\* Policy::batch_is_authorized: the pattern of a derived rule is looked up as
\* if it were a path.
BatchAuthorizes(policies, derived) ==
    \A d \in {q \in derived : \A p \in policies : p.name # q.name} :
        \A rule \in d.paths : \E p \in policies : PolicyAuthorizes(p, rule.path, rule.ops)

\* The wildcard stands at the end only.  Of other patterns the code asks no
\* such thing, and for them the next property does not hold: foo** "covers"
\* foo* but matches less.
WellFormed(pattern) == \A i \in 1 .. Len(pattern) - 1 : pattern[i] # Star

\* Policies that batch_is_authorized accepts allow nothing that the existing
\* ones do not, unless one of these has the same name.
GrantsNoMore(policies, derived, path, ops) ==
    BatchAuthorizes(policies, derived) =>
        \A d \in derived :
            \/ \E p \in policies : p.name = d.name
            \/ PolicyAuthorizes(d, path, ops) => \E p \in policies : PolicyAuthorizes(p, path, ops)
=============================================================================
