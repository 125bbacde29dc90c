--------------------------- MODULE RouteRegistry ---------------------------
(***************************************************************************)
(* The proxy's in-memory registry, internal/infra/proxy/registry.go and    *)
(* lock.go.  A site is keyed by routeKey, which folds the case of the task *)
(* name, so two tasks whose names differ in case alone share one site.     *)
(* The Go map drops a site that has no container hop, no routes and no     *)
(* lock, and reads a missing key as the zero value: both are EmptySite.    *)
(* Like Containers, the module has operators on a registry value only.     *)
(***************************************************************************)
EXTENDS TaskData

CONSTANTS
  NoHop,          \* a site whose container is not registered
  Sites, SiteOf   \* routeKey: SiteOf[t] is the key of task t

\* Where a task's requests go: the container's address and the task's port.
Hop == [addr : Addrs, conf : Confs]

Site == [task : Hop \cup {NoHop}, routes : RouteSets, lock : Hashes]

ASSUME RegistryAssumption ==
  /\ NoHop \notin Hop
  /\ SiteOf \in [Tasks -> Sites]

EmptySite == [task |-> NoHop, routes |-> NoRoutes, lock |-> NoHash]

Registered(reg, t, addr, conf) ==
  [reg EXCEPT ![SiteOf[t]] = [@ EXCEPT !.task = [addr |-> addr, conf |-> conf]]]

Unregistered(reg, t) ==
  [reg EXCEPT ![SiteOf[t]] = [@ EXCEPT !.task = NoHop]]

WithRoutes(reg, t, routes) ==
  [reg EXCEPT ![SiteOf[t]] = [@ EXCEPT !.routes = routes]]

WithLock(reg, t, hash) ==
  [reg EXCEPT ![SiteOf[t]] = [@ EXCEPT !.lock = hash]]
=============================================================================
