-------------------------- MODULE MCProxyRequests --------------------------
(***************************************************************************)
(* The instance of ProxyRequests for TLC: a task "web" that a visitor may  *)
(* write "WEB", and a task "blog".  Routes of "web" lead to a backend's    *)
(* path and, longer, to another backend's root; to "blog" through Boreas;  *)
(* and back to "web" itself.                                               *)
(***************************************************************************)
EXTENDS ProxyRequests, TLC

NamesMean == ("web" :> "web") @@ ("WEB" :> "web") @@ ("blog" :> "blog")

To(path, host, base) == [path |-> path, host |-> host, base |-> base]

RoutesOffered ==
  ("web" :> { {},
     {To(<<"api">>, "pay", <<"base", "">>), To(<<"api", "x", "">>, "docs", <<"">>)},
     {To(<<"api">>, "boreas", <<"p", "blog", "">>)},
     {To(<<"api">>, "boreas", <<"p", "web">>)} })
  @@ ("blog" :> { {} })

CONSTANTS h1, h2, g1

HashesOf == ("web" :> {h1, h2}) @@ ("blog" :> {g1})

Symmetry == Permutations({h1, h2})

RestsAsked == { <<>>, <<"">>, <<"api">>, <<"api", "x">> }

\* The hypothesis under which links are proved to arrive.
ASSUME PathsApart
=============================================================================
