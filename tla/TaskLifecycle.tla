--------------------------- MODULE TaskLifecycle ---------------------------
(***************************************************************************)
(* TaskService (internal/service/task_service.go): the operations that     *)
(* create, start, stop, restart, update, deploy and delete a task, and the *)
(* reconciliation at startup.                                              *)
(*                                                                         *)
(* Every operation is one HTTP request.  It takes the task's mutex, works  *)
(* on a copy of the task's row, and talks to three parts that fail on      *)
(* their own: the tasks table in Postgres (row), the Docker daemon         *)
(* (docker) and the in-memory proxy registry (site).  One step of the      *)
(* model is one such call, so requests for other tasks, the containers     *)
(* themselves, a crash and the failure of the call fall between any two.   *)
(* What the proxy holds after a step is what ServeHTTP answers from.       *)
(*                                                                         *)
(* Faults says what may go wrong in a run:                                 *)
(*   "store"     a statement on the tasks table fails, the row untouched   *)
(*   "runtime"   a Docker call fails before it takes effect                *)
(*   "lost"      a Docker call, or a statement on the tasks table, takes   *)
(*               effect and still reports an error                         *)
(*   "pull"      an image, or the credential to pull it, is not available  *)
(*   "ready"     a running container does not accept connections in time   *)
(*   "exit"      a container's process ends; the restart policy revives it *)
(*   "external"  someone else stops or removes a container                 *)
(*   "crash"     Boreas stops and starts again                             *)
(* A request whose client hangs up has its context cancelled: from then on *)
(* its calls fail, which "store" with "runtime" and "lost" include.        *)
(***************************************************************************)
EXTENDS Containers, RouteRegistry

CONSTANTS
  Clients,   \* requests that may be in progress at the same time
  NoJob,     \* a client without a request
  Ops,       \* the operations a run allows
  Faults     \* the faults a run allows

AllOps == {"create", "start", "stop", "restart", "update", "deploy", "delete"}
AllFaults == {"store", "runtime", "lost", "pull", "ready", "exit", "external", "crash"}

VARIABLES
  row,       \* the tasks table
  docker,    \* Docker's containers
  site,      \* the proxy registry
  holder,    \* locks: the request inside the critical section of a task
  at, job,   \* of each request: its next call, and its local variables
  phase,     \* of the process: "down", "boot" (Reconcile) or "up"
  todo,      \* Reconcile: tasks still to inspect
  repaired   \* Reconcile: a row inspected and not yet saved

vars == <<row, docker, site, holder, at, job, phase, todo, repaired>>
process == <<phase, todo, repaired>>

(***************************************************************************)
(* The local variables of a request.  row is the code's task variable, was *)
(* the row as the operation read it, next the row with the new container   *)
(* configuration that Update saves (NoRow when the container is to stay).  *)
(***************************************************************************)
MaybeRow == Row \cup {NoRow}
Job == [op : AllOps, task : Tasks, row : MaybeRow, was : MaybeRow,
        next : MaybeRow, recreate : BOOLEAN]

ASSUME LifecycleAssumption ==
  /\ Ops \subseteq AllOps
  /\ Faults \subseteq AllFaults
  /\ NoJob \notin Job

Labels == {"idle", "waiting", "reserve", "read", "pull", "create",
           "persistCreated", "undo", "markStarting", "recreate", "start",
           "ready", "persistRunning", "register", "stop", "unregister",
           "persistStopped", "markRestarting", "clear", "inspect", "remove",
           "drop", "save", "saveSpec", "saveRecreated", "fail", "publish",
           "done"}

(***************************************************************************)
(* Helpers.                                                                *)
(***************************************************************************)
TaskOf(c) == job[c].task
OpOf(c) == job[c].op
IsUpdate(c) == OpOf(c) \in {"update", "deploy"}

Go(c, label) == at' = [at EXCEPT ![c] = label]
SetRow(c, r) == job' = [job EXCEPT ![c].row = r]

\* The operation returns its task: Update then brings the registry in line.
Returned(c) == IF OpOf(c) = "update" THEN "publish" ELSE "done"

\* tasks.Update replaces the whole row with the request's copy, by row id.
Persist(c, label, r, next, failed) ==
  /\ at[c] = label
  /\ \/ /\ row[TaskOf(c)] # NoRow
        /\ row' = [row EXCEPT ![TaskOf(c)] = r]
        /\ SetRow(c, r)
        /\ Go(c, next)
     \/ /\ "lost" \in Faults /\ row[TaskOf(c)] # NoRow
        /\ row' = [row EXCEPT ![TaskOf(c)] = r]
        /\ Go(c, failed)
        /\ UNCHANGED job
     \/ /\ "store" \in Faults \/ row[TaskOf(c)] = NoRow
        /\ Go(c, failed)
        /\ UNCHANGED <<row, job>>
  /\ UNCHANGED <<docker, site, holder, process>>

OnlyMoves == UNCHANGED <<row, docker, site, holder, process>>
OnlyRegistry == UNCHANGED <<row, docker, holder, job, process>>
OnlyDocker == UNCHANGED <<row, site, holder, process>>

\* Where Update goes once it has the image and the container is down.
AfterCreation(c) ==
  CASE OpOf(c) = "restart"                            -> "markRestarting"
    [] IsUpdate(c) /\ job[c].was.status # "running"   -> "saveRecreated"
    [] OTHER                                          -> "start"

(***************************************************************************)
(* A request arrives, waits for the task's mutex, and reads the row.       *)
(***************************************************************************)
Request(c) ==
  /\ phase = "up" /\ at[c] = "idle"
  /\ \E op \in Ops, t \in Tasks :
       job' = [job EXCEPT ![c] = [op |-> op, task |-> t, row |-> NoRow,
                 was |-> NoRow, next |-> NoRow, recreate |-> FALSE]]
  /\ Go(c, "waiting")
  /\ OnlyMoves

\* As if the operations did not take the task's mutex.
EnterAnyway(c) ==
  /\ at[c] = "waiting"
  /\ holder' = [holder EXCEPT ![TaskOf(c)] = @ \cup {c}]
  /\ Go(c, IF OpOf(c) = "create" THEN "reserve" ELSE "read")
  /\ UNCHANGED <<row, docker, site, job, process>>

Enter(c) ==
  /\ at[c] = "waiting" /\ holder[TaskOf(c)] = {}
  /\ holder' = [holder EXCEPT ![TaskOf(c)] = {c}]
  /\ Go(c, IF OpOf(c) = "create" THEN "reserve" ELSE "read")
  /\ UNCHANGED <<row, docker, site, job, process>>

\* As if an operation returned without its deferred unlock.
ReturnLocked(c) ==
  /\ at[c] = "done"
  /\ job' = [job EXCEPT ![c] = NoJob]
  /\ Go(c, "idle")
  /\ UNCHANGED <<row, docker, site, holder, process>>

Unlock(c) ==
  /\ at[c] = "done"
  /\ holder' = [holder EXCEPT ![TaskOf(c)] = @ \ {c}]
  /\ job' = [job EXCEPT ![c] = NoJob]
  /\ Go(c, "idle")
  /\ UNCHANGED <<row, docker, site, process>>

Conflict(op, r) ==
  CASE op = "start"   -> r.status \in {"running", "starting", "creating"}
    [] op = "stop"    -> r.status \in {"stopped", "starting", "creating"}
    [] op = "restart" -> r.status \in {"starting", "creating"}
    [] OTHER          -> FALSE

NameTaken(t) == \E u \in Tasks : SiteOf[u] = SiteOf[t] /\ row[u] # NoRow

\* The operation ends before it has changed anything.
Refuse(c) ==
  /\ \/ at[c] = "reserve"                       \* invalid, or the name is taken
     \/ at[c] = "read" /\ row[TaskOf(c)] = NoRow
     \/ at[c] = "read" /\ row[TaskOf(c)] # NoRow /\ Conflict(OpOf(c), row[TaskOf(c)])
     \/ at[c] = "read" /\ IsUpdate(c)            \* invalid
     \/ at[c] = "read" /\ "store" \in Faults
  /\ Go(c, "done")
  /\ OnlyMoves /\ UNCHANGED job

\* The read of the row that every operation but Create begins with.
Reads(c, op) ==
  /\ at[c] = "read" /\ OpOf(c) = op
  /\ row[TaskOf(c)] # NoRow
  /\ ~Conflict(op, row[TaskOf(c)])

Begin(c, r, next, recreate) ==
  job' = [job EXCEPT ![c] = [@ EXCEPT !.row = r, !.was = row[TaskOf(c)],
                                      !.next = next, !.recreate = recreate]]

(***************************************************************************)
(* Steps that several operations share.                                    *)
(***************************************************************************)
Pull(c) ==
  /\ at[c] = "pull"
  /\ \/ Go(c, CASE OpOf(c) = "create"  -> "create"
                [] OpOf(c) = "restart" -> "unregister"
                [] OTHER -> IF job[c].was.status = "running" THEN "stop" ELSE "saveSpec")
     \/ /\ "pull" \in Faults
        /\ Go(c, IF OpOf(c) = "create" THEN "fail" ELSE "done")
  /\ OnlyMoves /\ UNCHANGED job

StopContainer(c) ==
  LET k == job[c].row.cid
      failed == IF OpOf(c) = "delete" THEN "done" ELSE "fail"
  IN /\ at[c] = "stop"
     /\ \/ /\ Exists(docker, k)
           /\ docker' = Stopped(docker, k)
           /\ Go(c, IF OpOf(c) = "delete" THEN "remove" ELSE "unregister")
        \/ /\ "runtime" \in Faults \/ ~Exists(docker, k)
           /\ Go(c, failed) /\ UNCHANGED docker
        \/ /\ "lost" \in Faults
           /\ docker' = Stopped(docker, k) /\ Go(c, failed)
     /\ OnlyDocker /\ UNCHANGED job

\* As if only Stop took the container off the proxy.
UnregisterOnStop(c) ==
  /\ at[c] = "unregister"
  /\ site' = IF OpOf(c) = "stop" THEN Unregistered(site, TaskOf(c)) ELSE site
  /\ Go(c, CASE OpOf(c) = "stop"    -> "persistStopped"
             [] OpOf(c) = "restart" -> "recreate"
             [] OTHER               -> "saveSpec")
  /\ OnlyRegistry

Unregister(c) ==
  /\ at[c] = "unregister"
  /\ site' = Unregistered(site, TaskOf(c))
  /\ Go(c, CASE OpOf(c) = "stop"    -> "persistStopped"
             [] OpOf(c) = "restart" -> "recreate"
             [] OTHER               -> "saveSpec")
  /\ OnlyRegistry

(***************************************************************************)
(* Runtime.Recreate: stop and remove the old container, then create.  Any  *)
(* of its Docker calls may fail, with what was done before it left done.   *)
(***************************************************************************)
RecreateContainer(c) ==
  LET t    == TaskOf(c)
      old  == job[c].row.cid
      gone == Gone(docker, old)
      spec == job[c].row.spec
      fresh == {k \in Cids : docker[k] = Unused}
  IN /\ at[c] = "recreate"
     /\ \/ \E k \in fresh :
             /\ MayReclaim(gone, t)
             /\ docker' = Created(gone, k, t, spec)
             /\ SetRow(c, [job[c].row EXCEPT !.cid = k, !.pending = FALSE])
             /\ Go(c, AfterCreation(c))
        \/ /\ "runtime" \in Faults \/ ~MayReclaim(gone, t) \/ fresh = {}
           /\ docker' \in IF "runtime" \in Faults
                            THEN {docker, Stopped(docker, old)} \cup CreateFailures(gone, t)
                            ELSE {gone}
           /\ Go(c, "fail") /\ UNCHANGED job
        \/ /\ "lost" \in Faults /\ MayReclaim(gone, t)
           /\ \E k \in fresh : docker' = Created(gone, k, t, spec)
           /\ Go(c, "fail") /\ UNCHANGED job
     /\ OnlyDocker

StartContainer(c) ==
  LET outcomes == StartOutcomes(docker, job[c].row.cid)
  IN /\ at[c] = "start"
     /\ \/ docker' \in outcomes /\ Go(c, "ready")
        \/ /\ "runtime" \in Faults \/ outcomes = {}
           /\ Go(c, "fail") /\ UNCHANGED docker
        \/ "lost" \in Faults /\ docker' \in outcomes /\ Go(c, "fail")
     /\ OnlyDocker /\ UNCHANGED job

\* waitReady, and the fields finishStart sets once it succeeds.  A container it
\* finds stopped ends the wait, one that is not up yet may outlast it.
AwaitReady(c) ==
  LET k == job[c].row.cid
  IN /\ at[c] = "ready"
     /\ \/ /\ Reachable(docker, k)
           /\ SetRow(c, [job[c].row EXCEPT !.status = "running", !.pending = FALSE,
                                           !.addr = docker[k].addr])
           /\ Go(c, "persistRunning")
        \/ /\ Faults \cap {"ready", "runtime"} # {} \/ ~Reachable(docker, k)
           /\ Go(c, "fail") /\ UNCHANGED job
     /\ OnlyMoves

PersistRunning(c) == Persist(c, "persistRunning", job[c].row, "register", "done")

\* registry.Register refuses a blank host; waitReady never returns one.
Register(c) ==
  /\ at[c] = "register" /\ job[c].row.addr # NoAddr
  /\ site' = Registered(site, TaskOf(c), job[c].row.addr, job[c].row.spec.conf)
  /\ Go(c, Returned(c))
  /\ OnlyRegistry

\* As if failTask only returned the cause.
FailTaskUnsaved(c) ==
  /\ at[c] = "fail"
  /\ Go(c, Returned(c))
  /\ OnlyMoves /\ UNCHANGED job

\* failTask: best effort, the cause is returned either way.
FailTask(c) ==
  Persist(c, "fail", [job[c].row EXCEPT !.status = "error"], Returned(c), Returned(c))

(***************************************************************************)
(* Create.                                                                 *)
(***************************************************************************)
Reserve(c) ==
  LET t == TaskOf(c)
  IN /\ at[c] = "reserve" /\ ~NameTaken(t)
     /\ \E spec \in Specs :
          LET r == [status |-> "creating", spec |-> spec, cid |-> NoCid,
                    addr |-> NoAddr, pending |-> FALSE,
                    routes |-> NoRoutes, hash |-> NoHash]
          IN /\ row' = [row EXCEPT ![t] = r]
             /\ \/ SetRow(c, r) /\ Go(c, "pull")
                \/ "lost" \in Faults /\ UNCHANGED job /\ Go(c, "done")
     /\ UNCHANGED <<docker, site, holder, process>>

CreateContainer(c) ==
  LET t == TaskOf(c)
      fresh == {k \in Cids : docker[k] = Unused}
  IN /\ at[c] = "create"
     /\ \/ \E k \in fresh :
             /\ MayReclaim(docker, t)
             /\ docker' = Created(docker, k, t, job[c].row.spec)
             /\ SetRow(c, [job[c].row EXCEPT !.cid = k, !.status = "starting"])
             /\ Go(c, "persistCreated")
        \/ /\ "runtime" \in Faults \/ ~MayReclaim(docker, t) \/ fresh = {}
           /\ docker' \in IF "runtime" \in Faults THEN CreateFailures(docker, t) ELSE {docker}
           /\ Go(c, "fail") /\ UNCHANGED job
        \/ /\ "lost" \in Faults /\ MayReclaim(docker, t)
           /\ \E k \in fresh : docker' = Created(docker, k, t, job[c].row.spec)
           /\ Go(c, "fail") /\ UNCHANGED job
     /\ OnlyDocker

PersistCreated(c) == Persist(c, "persistCreated", job[c].row, "start", "undo")

UndoCreate(c) ==
  /\ at[c] = "undo"
  /\ \/ docker' = Gone(docker, job[c].row.cid)
     \/ "runtime" \in Faults /\ UNCHANGED docker
  /\ Go(c, "done")
  /\ OnlyDocker /\ UNCHANGED job

(***************************************************************************)
(* Start, Stop, Restart.                                                   *)
(***************************************************************************)
BeginStart(c) ==
  /\ Reads(c, "start")
  /\ Begin(c, [row[TaskOf(c)] EXCEPT !.status = "starting"], NoRow, FALSE)
  /\ Go(c, "markStarting")
  /\ OnlyMoves

MarkStarting(c) ==
  LET r == job[c].row
  IN Persist(c, "markStarting", r,
             IF r.pending \/ r.cid = NoCid THEN "recreate" ELSE "start", "done")

BeginStop(c) ==
  LET r == row[TaskOf(c)]
  IN /\ Reads(c, "stop")
     /\ Begin(c, r, NoRow, FALSE)
     /\ Go(c, IF r.cid = NoCid THEN "unregister" ELSE "stop")
     /\ OnlyMoves

PersistStopped(c) ==
  Persist(c, "persistStopped",
          [job[c].row EXCEPT !.status = "stopped", !.addr = NoAddr], "done", "done")

BeginRestart(c) ==
  /\ Reads(c, "restart")
  /\ Begin(c, row[TaskOf(c)], NoRow, FALSE)
  /\ Go(c, "pull")
  /\ OnlyMoves

MarkRestarting(c) ==
  Persist(c, "markRestarting", [job[c].row EXCEPT !.status = "starting"], "start", "done")

(***************************************************************************)
(* Delete takes the task off the proxy before anything can fail.           *)
(***************************************************************************)
BeginDelete(c) ==
  /\ Reads(c, "delete")
  /\ Begin(c, row[TaskOf(c)], NoRow, FALSE)
  /\ Go(c, "clear")
  /\ OnlyMoves

\* As if Delete left the task's routes to the proxy.
ClearHop(c) ==
  /\ at[c] = "clear"
  /\ site' = WithLock(Unregistered(site, TaskOf(c)), TaskOf(c), NoHash)
  /\ Go(c, IF job[c].row.cid = NoCid THEN "drop" ELSE "inspect")
  /\ OnlyRegistry

Clear(c) ==
  /\ at[c] = "clear"
  /\ site' = [site EXCEPT ![SiteOf[TaskOf(c)]] = EmptySite]
  /\ Go(c, IF job[c].row.cid = NoCid THEN "drop" ELSE "inspect")
  /\ OnlyRegistry

\* A container that is not running, or that cannot be inspected, is not stopped.
InspectForDelete(c) ==
  /\ at[c] = "inspect"
  /\ LET k == job[c].row.cid
     IN \/ ReportedUp(docker, k) /\ Go(c, "stop")
        \/ /\ Exists(docker, k) => InspectStatuses(docker, k) # {"running"}
           /\ Go(c, "remove")
        \/ "runtime" \in Faults /\ Go(c, "remove")
  /\ OnlyMoves /\ UNCHANGED job

\* As if Delete went on when the container could not be removed.
RemoveOrDrop(c) ==
  /\ at[c] = "remove"
  /\ \/ docker' = Gone(docker, job[c].row.cid)
     \/ "runtime" \in Faults /\ UNCHANGED docker
  /\ Go(c, "drop")
  /\ OnlyDocker /\ UNCHANGED job

RemoveContainer(c) ==
  /\ at[c] = "remove"
  /\ \/ docker' = Gone(docker, job[c].row.cid) /\ Go(c, "drop")
     \/ "runtime" \in Faults /\ UNCHANGED docker /\ Go(c, "done")
     \/ "lost" \in Faults /\ docker' = Gone(docker, job[c].row.cid) /\ Go(c, "done")
  /\ OnlyDocker /\ UNCHANGED job

DropRow(c) ==
  /\ at[c] = "drop"
  /\ \/ row' = [row EXCEPT ![TaskOf(c)] = NoRow]
     \/ "store" \in Faults /\ UNCHANGED row
  /\ Go(c, "done")
  /\ UNCHANGED <<docker, site, holder, job, process>>

(***************************************************************************)
(* Update and Deploy.  EditTask is the update method from the row it read  *)
(* to its first outside call: want is the specification asked for, edited  *)
(* the row with the metadata the request sets.                             *)
(***************************************************************************)
\* As if update had forgotten to set PendingRecreate.
WithSpecNotPending(r, want) ==
  [r EXCEPT !.spec = want, !.status = "stopped", !.addr = NoAddr]

WithSpec(r, want) == [r EXCEPT !.spec = want, !.pending = TRUE,
                               !.status = "stopped", !.addr = NoAddr]

EditTask(c, want, routes, hash, recreate) ==
  LET r       == row[TaskOf(c)]
      edited  == [r EXCEPT !.routes = routes, !.hash = hash]
      changed == (recreate /\ r.pending) \/ want # r.spec
  IN IF ~changed
       THEN /\ Begin(c, edited, NoRow, recreate)
            /\ Go(c, IF edited = r THEN "done" ELSE "save")
       ELSE /\ Begin(c, edited, WithSpec(edited, want), recreate)
            /\ Go(c, CASE recreate /\ want.image # r.spec.image -> "pull"
                       [] r.status = "running"                  -> "stop"
                       [] OTHER                                 -> "saveSpec")

BeginUpdate(c) ==
  /\ Reads(c, "update")
  /\ \E want \in Specs, routes \in RouteSets, hash \in Hashes, recreate \in BOOLEAN :
       EditTask(c, want, routes, hash, recreate)
  /\ OnlyMoves

\* Deploy answers a repeated image that is already in its row with success.
DeployAgain(c) ==
  /\ Reads(c, "deploy")
  /\ ~row[TaskOf(c)].pending
  /\ Go(c, "done")
  /\ OnlyMoves /\ UNCHANGED job

BeginDeploy(c) ==
  LET r == row[TaskOf(c)]
  IN /\ Reads(c, "deploy")
     /\ \E image \in Images :
          /\ r.spec.image # image \/ r.pending
          /\ EditTask(c, [r.spec EXCEPT !.image = image], r.routes, r.hash, TRUE)
     /\ OnlyMoves

SaveMetadata(c) == Persist(c, "save", job[c].row, Returned(c), "done")

SaveSpec(c) ==
  Persist(c, "saveSpec", job[c].next,
          IF job[c].recreate THEN "recreate" ELSE Returned(c), "done")

SaveRecreated(c) == Persist(c, "saveRecreated", job[c].row, Returned(c), "done")

\* As if the lock were only set along with changed routes.
PublishTogether(c) ==
  LET t == TaskOf(c)
      r == job[c].row
  IN /\ at[c] = "publish"
     /\ site' = IF r.routes # job[c].was.routes
                  THEN WithLock(WithRoutes(site, t, r.routes), t, r.hash) ELSE site
     /\ Go(c, "done")
     /\ OnlyRegistry

\* Update's wrapper: SetRoutes and SetLock, each only when its value changed.
Publish(c) ==
  LET t == TaskOf(c)
      r == job[c].row
      w == job[c].was
      withRoutes == IF r.routes # w.routes THEN WithRoutes(site, t, r.routes) ELSE site
  IN /\ at[c] = "publish"
     /\ site' = IF r.hash # w.hash THEN WithLock(withRoutes, t, r.hash) ELSE withRoutes
     /\ Go(c, "done")
     /\ OnlyRegistry

Step(c) ==
  \/ Unlock(c) \/ Refuse(c)
  \/ Pull(c) \/ StopContainer(c) \/ Unregister(c) \/ RecreateContainer(c)
  \/ StartContainer(c) \/ AwaitReady(c) \/ PersistRunning(c) \/ Register(c)
  \/ FailTask(c)
  \/ Reserve(c) \/ CreateContainer(c) \/ PersistCreated(c) \/ UndoCreate(c)
  \/ BeginStart(c) \/ MarkStarting(c) \/ BeginStop(c) \/ PersistStopped(c)
  \/ BeginRestart(c) \/ MarkRestarting(c)
  \/ BeginDelete(c) \/ Clear(c) \/ InspectForDelete(c) \/ RemoveContainer(c)
  \/ DropRow(c)
  \/ BeginUpdate(c) \/ DeployAgain(c) \/ BeginDeploy(c) \/ SaveMetadata(c)
  \/ SaveSpec(c) \/ SaveRecreated(c) \/ Publish(c)

(***************************************************************************)
(* Containers on their own.                                                *)
(***************************************************************************)
Others == UNCHANGED <<row, site, holder, at, job, process>>

Exit(k) ==
  /\ "exit" \in Faults /\ IsRunning(docker, k)
  /\ docker' = [docker EXCEPT ![k] = [@ EXCEPT !.state = "restarting", !.addr = NoAddr]]
  /\ Others

Revive(k) ==
  /\ Exists(docker, k) /\ docker[k].state = "restarting"
  /\ docker' \in StartOutcomes(docker, k)
  /\ Others

Interfere(k) ==
  /\ "external" \in Faults /\ Exists(docker, k)
  /\ docker' \in {Stopped(docker, k), Gone(docker, k)}
  /\ docker' # docker
  /\ Others

(***************************************************************************)
(* The process.  A crash takes the registry, the mutexes and the requests  *)
(* with it.  Reconcile lists the table, then inspects and saves one task   *)
(* after the other before the server listens; its errors are only logged.  *)
(***************************************************************************)
Crash ==
  /\ "crash" \in Faults /\ phase # "down"
  /\ phase' = "down" /\ todo' = {}
  /\ repaired' = [t \in Tasks |-> NoRow]
  /\ site' = [s \in Sites |-> EmptySite]
  /\ holder' = [t \in Tasks |-> {}]
  /\ at' = [c \in Clients |-> "idle"]
  /\ job' = [c \in Clients |-> NoJob]
  /\ UNCHANGED <<row, docker>>

Boot ==
  /\ phase = "down"
  /\ \/ phase' = "boot" /\ todo' = {t \in Tasks : row[t] # NoRow}
     \/ "store" \in Faults /\ phase' = "up" /\ UNCHANGED todo
  /\ UNCHANGED <<row, docker, site, holder, at, job, repaired>>

Saving == {t \in Tasks : repaired[t] # NoRow}

ReconcileTask(t) ==
  LET r == row[t]
      k == r.cid
      base == WithLock(WithRoutes(site, t, r.routes), t, r.hash)
  IN /\ phase = "boot" /\ t \in todo /\ Saving = {}
     /\ \/ /\ ~Exists(docker, k) \/ "runtime" \in Faults
           /\ site' = Unregistered(base, t)
           /\ repaired' = [repaired EXCEPT ![t] =
                [r EXCEPT !.status = "unknown", !.addr = NoAddr]]
        \/ /\ Exists(docker, k)
           /\ site' = IF Reachable(docker, k)
                        THEN Registered(base, t, docker[k].addr, r.spec.conf)
                        ELSE Unregistered(base, t)
           /\ \E status \in InspectStatuses(docker, k) :
                repaired' = [repaired EXCEPT ![t] =
                  [r EXCEPT !.status = status, !.addr = docker[k].addr]]
     /\ todo' = todo \ {t}
     /\ UNCHANGED <<row, docker, holder, at, job, phase>>

ReconcileSave(t) ==
  /\ phase = "boot" /\ t \in Saving
  /\ \/ row' = [row EXCEPT ![t] = repaired[t]]
     \/ "store" \in Faults /\ UNCHANGED row
  /\ repaired' = [repaired EXCEPT ![t] = NoRow]
  /\ UNCHANGED <<docker, site, holder, at, job, phase, todo>>

Listen ==
  /\ phase = "boot" /\ todo = {} /\ Saving = {}
  /\ phase' = "up"
  /\ UNCHANGED <<row, docker, site, holder, at, job, todo, repaired>>

Startup == Boot \/ Listen \/ \E t \in Tasks : ReconcileTask(t) \/ ReconcileSave(t)

Init ==
  /\ row = [t \in Tasks |-> NoRow]
  /\ docker = [k \in Cids |-> Unused]
  /\ site = [s \in Sites |-> EmptySite]
  /\ holder = [t \in Tasks |-> {}]
  /\ at = [c \in Clients |-> "idle"]
  /\ job = [c \in Clients |-> NoJob]
  /\ phase = "down" /\ todo = {}
  /\ repaired = [t \in Tasks |-> NoRow]

Next ==
  \/ \E c \in Clients : Request(c) \/ Enter(c) \/ Step(c)
  \/ \E k \in Cids : Exit(k) \/ Revive(k) \/ Interfere(k)
  \/ Startup
  \/ Crash

Spec == Init /\ [][Next]_vars

\* A handler keeps running until it returns, and Go hands a mutex to whoever
\* has waited too long (its starvation mode), so no waiting request is passed
\* over for ever.  Nothing obliges a client to ask, or a container to stay up.
FairSpec == Spec /\ \A c \in Clients : WF_vars(Step(c)) /\ SF_vars(Enter(c))

-----------------------------------------------------------------------------
(***************************************************************************)
(* Types.                                                                  *)
(***************************************************************************)
\* Every variable holds a value the code could store in it.
TypeOK ==
  /\ row \in [Tasks -> MaybeRow]
  /\ docker \in DockerStates
  /\ site \in [Sites -> Site]
  /\ holder \in [Tasks -> SUBSET Clients]
  /\ at \in [Clients -> Labels]
  /\ job \in [Clients -> Job \cup {NoJob}]
  /\ phase \in {"down", "boot", "up"}
  /\ todo \subseteq Tasks
  /\ repaired \in [Tasks -> MaybeRow]

\* Labels at which a request has not read or inserted a row, or needs none.
RowFree == {"idle", "waiting", "reserve", "read", "done"}

\* The local variables a step reads have been assigned on every path to it.
Assigned(c) ==
  /\ (at[c] = "idle") <=> (job[c] = NoJob)
  /\ at[c] \notin RowFree => job[c].row \in Row
  /\ at[c] \notin RowFree /\ IsUpdate(c) => job[c].was \in Row
  /\ at[c] \in {"pull", "stop", "unregister", "saveSpec"} /\ IsUpdate(c)
       => job[c].next \in Row
  /\ at[c] = "reserve" => OpOf(c) = "create"
  /\ at[c] = "saveSpec" => IsUpdate(c)
  /\ at[c] = "publish" => OpOf(c) = "update"
  /\ at[c] \in {"clear", "inspect", "remove", "drop"} => OpOf(c) = "delete"
  /\ at[c] = "pull" => OpOf(c) \in {"create", "restart", "update", "deploy"}
  /\ at[c] = "stop" => OpOf(c) \in {"stop", "delete", "update", "deploy"}
  /\ at[c] = "unregister" => OpOf(c) \in {"stop", "restart", "update", "deploy"}

LocalsAssigned == \A c \in Clients : Assigned(c)

\* While Reconcile runs no request does, and it works on rows that exist.
BootAlone ==
  /\ phase # "up" => \A c \in Clients : at[c] = "idle"
  /\ \A t \in Tasks : t \in todo \/ repaired[t] # NoRow =>
       phase = "boot" /\ row[t] \in Row

(***************************************************************************)
(* What a row says of its container.                                       *)
(***************************************************************************)
\* A copy of task t's row names a container Docker gave to t, and one that is
\* not marked pending names a container made from the copy's specification.
Tracks(d, r, t) ==
  r # NoRow /\ r.cid # NoCid =>
    /\ d[r.cid] # Unused
    /\ Exists(d, r.cid) =>
         /\ d[r.cid].task = t
         /\ ~r.pending => d[r.cid].spec = r.spec

\* pending_recreate can be trusted: unless it is set, the container a row names
\* was made from the row's image, port, labels, env and volumes, so Start may
\* reuse it (task_service.go:199).  Nothing may break this: not a failed call,
\* a call that worked and reported an error, a crash, or a concurrent request.
PendingTracksSpec == \A t \in Tasks : Tracks(docker, row[t], t)

\* The same of every copy a request or Reconcile may still write.
CopiesTrack ==
  /\ \A t \in Tasks : Tracks(docker, repaired[t], t)
  /\ \A c \in Clients : at[c] # "idle" =>
       /\ Tracks(docker, job[c].row, TaskOf(c))
       /\ Tracks(docker, job[c].next, TaskOf(c))

\* No request is on its way to start a container whose row is still pending, so
\* finishStart may clear the mark.
StartsCurrent ==
  \A c \in Clients :
    at[c] \in {"create", "persistCreated", "markRestarting", "start", "ready"}
        \/ (at[c] = "pull" /\ OpOf(c) = "create")
      => ~job[c].row.pending

IInv ==
  /\ TypeOK /\ LocalsAssigned /\ BootAlone
  /\ PendingTracksSpec /\ CopiesTrack /\ StartsCurrent

Quiet(t) == phase = "up" /\ holder[t] = {}

\* No call on a container outlives its record: with no request at work on t,
\* each container carrying t's labels is the one t's row names.  It rests on
\* the order of Delete (container first, row last), on Create's rollback and on
\* Recreate removing before it creates.
NoOrphanContainers ==
  \A t \in Tasks, k \in Cids :
    Quiet(t) /\ Exists(docker, k) /\ docker[k].task = t =>
      row[t] # NoRow /\ row[t].cid = k

\* A request leaves no task in a status that refuses Start, Stop and Restart:
\* creating and starting only last while some request is at work on the task.
TransitionsSettle ==
  \A t \in Tasks :
    Quiet(t) /\ row[t] # NoRow => row[t].status \notin {"creating", "starting"}

(***************************************************************************)
(* What the proxy serves.                                                  *)
(***************************************************************************)
\* Nothing is served under the name of a deleted task.  The mutex is per exact
\* name and the site per folded name, so a Create of "Web" may run beside a
\* Delete of "web": Delete is done with the shared site before its row goes.
SitesHaveRows ==
  \A s \in Sites : site[s] # EmptySite =>
    \E t \in Tasks : SiteOf[t] = s /\ row[t] # NoRow

\* With no request at work, the proxy sends a task's requests to its container
\* exactly while the row says running, at the row's address and port, and has
\* the row's routes and lock, also after a restart of Boreas.
RegistryMirrorsRow ==
  \A t \in Tasks : Quiet(t) /\ row[t] # NoRow =>
    LET s == site[SiteOf[t]]
        r == row[t]
    IN /\ s.routes = r.routes /\ s.lock = r.hash
       /\ s.task = IF r.status = "running"
                     THEN [addr |-> r.addr, conf |-> r.spec.conf]
                     ELSE NoHop

\* A registered address belongs to the container the task's row names, while
\* it runs: Docker may give a released address to the next container.
HopIsCurrent ==
  \A t \in Tasks : Quiet(t) /\ row[t] # NoRow =>
    LET hop == site[SiteOf[t]].task
    IN hop # NoHop =>
         /\ IsRunning(docker, row[t].cid)
         /\ docker[row[t].cid].addr = hop.addr

(***************************************************************************)
(* What a step may never do.                                               *)
(***************************************************************************)
\* t's row gets the settings that the request of an Update of t asks for, and had
\* those which this Update had read.
SetByUpdate(c, t) ==
  /\ at[c] \notin RowFree /\ TaskOf(c) = t /\ OpOf(c) = "update"
  /\ row'[t].routes = job[c].row.routes /\ row'[t].hash = job[c].row.hash
  /\ row[t].routes = job[c].was.routes /\ row[t].hash = job[c].was.hash

\* The whole-row UPDATE of an operation never reverts what an Update saved: the
\* routes and the password of a task change in steps of an Update alone, and no
\* Update undoes another's.
SettingsChangeOnlyByUpdate ==
  [][\A t \in Tasks :
       row[t] # NoRow /\ row'[t] # NoRow
         /\ (row'[t].routes # row[t].routes \/ row'[t].hash # row[t].hash)
       => \E c \in Clients : SetByUpdate(c, t)]_vars

\* Boreas stops or removes a container only at work on the task whose labels the
\* container has, even when two tasks' names spell the same Docker name.
ForeignContainersUntouched ==
  [][\A k \in Cids :
       Exists(docker, k) /\ docker'[k] # docker[k] =>
         \/ \E c \in Clients : c \in holder[docker[k].task] /\ at'[c] # at[c]
         \/ at' = at]_vars

(***************************************************************************)
(* What must happen.                                                       *)
(***************************************************************************)
\* Every request gets its turn and its answer, whatever fails on the way: no
\* path out of an operation keeps the mutex.
RequestsAnswered == \A c \in Clients : at[c] = "waiting" ~> at[c] = "idle"
=============================================================================
