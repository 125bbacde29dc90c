------------------------------ MODULE TaskData ------------------------------
(***************************************************************************)
(* The values the modules about tasks share: internal/core/core.go.        *)
(*                                                                         *)
(* A task is a (project slug, task name) pair.  What the properties do not *)
(* tell apart is left out (description, note, dev status, form factor) or  *)
(* is one opaque value: a container's port, labels, environment and        *)
(* volumes together are one conf, a list of routes is one member of        *)
(* RouteSets, and an error text is not kept at all.                        *)
(***************************************************************************)
CONSTANTS
  Tasks,                \* (project slug, task name) pairs
  Images, Confs,        \* image references; port+labels+env+volumes
  Cids, NoCid,          \* container ids, and the empty ContainerID
  Addrs, NoAddr,        \* addresses on the Docker network, and the empty IP
  RouteSets, NoRoutes,  \* lists of routes, and the empty list
  Hashes, NoHash,       \* password hashes, and the empty one
  NoRow                 \* the task is not in the table

\* ContainerSpec, less the project and the name, which the task stands for.
Specs == [image : Images, conf : Confs]

\* TaskStatus.
Statuses == {"creating", "starting", "running", "stopped", "error", "unknown"}

\* Task: a row of the tasks table, and the copy of one that a request holds.
Row == [status : Statuses, spec : Specs, cid : Cids \cup {NoCid},
        addr : Addrs \cup {NoAddr}, pending : BOOLEAN,
        routes : RouteSets, hash : Hashes]

ASSUME TaskDataAssumption ==
  /\ NoCid \notin Cids
  /\ NoAddr \notin Addrs
  /\ NoRoutes \in RouteSets
  /\ NoHash \in Hashes
  /\ NoRow \notin Row
=============================================================================
