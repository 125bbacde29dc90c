----------------------------- MODULE Containers -----------------------------
(***************************************************************************)
(* The containers Docker holds for Boreas, and what the calls of           *)
(* internal/infra/docker/runtime.go do to them.  The module has no state:  *)
(* its operators map one value of the container table to the next, and the *)
(* modules that EXTEND it keep the table in a variable.                    *)
(***************************************************************************)
EXTENDS TaskData

CONSTANTS
  Unused,         \* an id Docker has not given out yet
  Removed,        \* an id whose container was removed (ids are never reused)
  Names,          \* Docker container names
  ContainerName   \* "boreas-<project>-<task>": two tasks may share one

\* "restarting": the process ended and the restart policy brings it back.
ContainerStates == {"created", "running", "restarting", "exited"}

Container == [task : Tasks, spec : Specs, state : ContainerStates,
              addr : Addrs \cup {NoAddr}]

\* What the daemon may hold, by container id.
DockerStates == [Cids -> Container \cup {Unused, Removed}]

ASSUME ContainersAssumption ==
  /\ Unused \notin Container
  /\ Removed \notin Container
  /\ Unused # Removed
  /\ ContainerName \in [Tasks -> Names]

Exists(d, k) == k \in Cids /\ d[k] \notin {Unused, Removed}
IsRunning(d, k) == Exists(d, k) /\ d[k].state = "running"
UsedAddrs(d) == {d[k].addr : k \in {j \in Cids : IsRunning(d, j)}}

\* The TaskStatus Runtime.Inspect may report for an existing container.  Docker
\* flags a restarting container as running too; the code has a case for either.
InspectStatuses(d, k) ==
  CASE d[k].state = "running"    -> {"running"}
    [] d[k].state = "created"    -> {"starting"}
    [] d[k].state = "restarting" -> {"running", "starting"}
    [] d[k].state = "exited"     -> {"stopped"}

\* state.Status is running, which suffices for Delete to stop it first.
ReportedUp(d, k) == Exists(d, k) /\ "running" \in InspectStatuses(d, k)

\* state.Status is running and state.IP is not blank.
Reachable(d, k) == IsRunning(d, k) /\ d[k].addr # NoAddr

\* Runtime.Stop of an existing container; one that is not up is left alone.
Stopped(d, k) ==
  IF Exists(d, k) /\ d[k].state \in {"running", "restarting"}
    THEN [d EXCEPT ![k] = [@ EXCEPT !.state = "exited", !.addr = NoAddr]]
    ELSE d

\* Runtime.Remove, which is forced: whatever the container was doing.
Gone(d, k) == IF Exists(d, k) THEN [d EXCEPT ![k] = Removed] ELSE d

\* Runtime.Start of container k: Docker attaches it to the network at a free
\* address; a container that runs already stays as it is.
Started(d, k, a) ==
  [d EXCEPT ![k] = [@ EXCEPT !.state = "running", !.addr = a]]

StartOutcomes(d, k) ==
  IF ~Exists(d, k) THEN {}
  ELSE IF IsRunning(d, k) THEN {d}
  ELSE {Started(d, k, a) : a \in Addrs \ UsedAddrs(d)}

\* The existing containers that hold the Docker name of task t.
NameHolders(d, t) ==
  {k \in Cids : Exists(d, k) /\ ContainerName[d[k].task] = ContainerName[t]}

\* As if the labels of the container in the way were not read.
ReclaimAny(d, t) == TRUE

\* removeSupersededContainer: only a holder whose labels name t is reclaimed.
MayReclaim(d, t) == \A k \in NameHolders(d, t) : d[k].task = t
Reclaimed(d, t) ==
  [k \in Cids |-> IF k \in NameHolders(d, t) THEN Removed ELSE d[k]]

\* Runtime.Create: after a name conflict the superseded container goes first.
Created(d, k, t, s) ==
  [Reclaimed(d, t) EXCEPT
     ![k] = [task |-> t, spec |-> s, state |-> "created", addr |-> NoAddr]]

\* What a Create that fails may leave behind.
CreateFailures(d, t) ==
  IF MayReclaim(d, t) THEN {d, Reclaimed(d, t)} ELSE {d}
=============================================================================
