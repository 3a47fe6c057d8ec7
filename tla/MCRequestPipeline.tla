------------------------- MODULE MCRequestPipeline --------------------------
(***************************************************************************)
(* The instance of RequestPipeline that is checked: the root, a namespace  *)
(* a, its child c, its sibling ab and another one that can take the name   *)
(* of ab.                                                                  *)
(***************************************************************************)
EXTENDS RequestPipeline, TLC

CONSTANTS root, a, ab, ab2, c, ta, tb, tb2, tr, tc, pa, pb, pb2, pr, pk, pc, ma, mr, ml

MCNamespace == {root, a, ab, ab2, c}
MCNameOf == (root :> <<"r">>) @@ (a :> <<"a">>) @@ (ab :> <<"a", "b">>) @@ (ab2 :> <<"a", "b">>) @@ (c :> <<"c">>)
MCParentOf == [n \in MCNamespace |-> CASE n = root -> None [] n = c -> a [] OTHER -> root]

MCTokenSpace == (ta :> a) @@ (tb :> ab) @@ (tb2 :> ab2) @@ (tr :> root) @@ (tc :> c)
MCPolicySpace == (pa :> a) @@ (pb :> ab) @@ (pb2 :> ab2) @@ (pr :> root) @@ (pk :> root) @@ (pc :> c)
MCAttached == {<<ta, pa>>, <<tb, pb>>, <<tb2, pb2>>, <<tr, pr>>, <<tr, pk>>, <<tc, pc>>}

Slashes == <<"/">>
K == <<"k", "/">>
Sys == <<"s", "/">>

\* Everything in a; the system paths of ab; what is under k/ in the root and in a; one path of the
\* root with more operations; what is under k/ in c, with a leading slash.
MCRulesOf ==
    (pa :> {[path |-> <<"*">>, ops |-> {"read"}]}) @@
    (pb :> {[path |-> Sys \o <<"*">>, ops |-> {"read"}]}) @@
    (pb2 :> {[path |-> Sys \o <<"*">>, ops |-> {"read"}]}) @@
    (pr :> {[path |-> K \o <<"*">>, ops |-> {"read"}],
            [path |-> <<"a", "/">> \o K \o <<"*">>, ops |-> {"read", "create"}]}) @@
    (pk :> {[path |-> K \o <<"x">>, ops |-> {"create"}]}) @@
    (pc :> {[path |-> Slashes \o K \o <<"*">>, ops |-> {"read"}]})

MCMountSpace == (ma :> a) @@ (mr :> root) @@ (ml :> root)
MCMountPath == (ma :> K) @@ (mr :> K) @@ (ml :> <<"a", "/">>)

In(names, path, op, t, e) ==
    [names |-> names, path |-> path, op |-> op, token |-> t, endpoint |-> e]

R == <<"r">>

MCInput ==
    {In(<<R>>, K \o <<"x">>, op, t, "secret") : op \in {"read", "create"}, t \in {tr, ta, None}} \cup
    {In(<<R, <<"a">>>>, K \o <<"x">>, op, t, "secret") : op \in {"read", "create"}, t \in {tr, ta}} \cup
    {In(<<R, <<"a", "b">>>>, Sys \o <<"m">>, "read", ta, "system"),
     In(<<R, <<"a", "b">>>>, Sys \o <<"m">>, "read", tb, "system"),
     In(<<R, <<"a", "b">>>>, Sys \o <<"m">>, "read", tb2, "system"),
     In(<<R, <<"a">>, <<"c">>>>, K \o <<"x">>, "read", tc, "secret"),
     In(<<<<"c">>>>, K \o <<"x">>, "read", tc, "secret"),
     In(<<<<"x">>>>, K \o <<"x">>, "read", tr, "secret"),
     In(<<R>>, <<"a", "/", "u">>, "update", None, "login"),
     In(<<R>>, <<"a", "/">> \o K \o <<"x">>, "read", ta, "secret"),
     In(<<R>>, <<"u">>, "read", None, "unknown"),
     In(<<R>>, Sys \o <<"u">>, "create", None, "unseal"),
     In(<<R>>, Sys \o <<"i">>, "create", None, "init"),
     In(<<R>>, Sys \o <<"t">>, "read", None, "status"),
     In(<<R>>, Sys \o <<"t">>, "update", None, "status"),
     In(<<R>>, Sys \o <<"e">>, "create", None, "seal"),
     In(<<R, <<"a">>>>, Sys \o <<"e">>, "create", None, "seal")}

MCInitially == [spaces |-> {root, a, ab, c}, tokens |-> {ta, tb, tr, tc}, policies |-> {pa, pb, pr, pc}, mounts |-> {ma, mr}]
=============================================================================
