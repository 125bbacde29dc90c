-------------------------- MODULE MCTaskLifecycle --------------------------
(***************************************************************************)
(* Instances of TaskLifecycle for TLC.  The sets of constants are model    *)
(* values given in the .cfg files; the functions over tasks are below.     *)
(* The number of container ids bounds how many containers Docker creates   *)
(* in a behaviour: once they are used up a creation fails.                 *)
(***************************************************************************)
EXTENDS TaskLifecycle, TLC

\* Every task has a Docker name, and a site, of its own.
NameOfItsOwn == [t \in Tasks |-> t]
SiteOfItsOwn == [t \in Tasks |-> t]

\* "web" and "Web", tasks of one project, fold to one site; "web" and "api", tasks
\* of two projects whose slugs end and begin alike, spell one Docker name.
SharedSite == ("web" :> "site") @@ ("Web" :> "site") @@ ("api" :> "other")
SharedName == ("web" :> "name") @@ ("Web" :> "own") @@ ("api" :> "name")

\* Nothing tells two container ids, two addresses or two clients apart.
Symmetry == Permutations(Cids) \cup Permutations(Addrs) \cup Permutations(Clients)
=============================================================================
