------------------------ MODULE TaskLifecycleProofs ------------------------
(***************************************************************************)
(* Proofs about TaskLifecycle, for any tasks, clients, containers and      *)
(* faults: types, rows and copies that are true of Docker, settings that   *)
(* no operation reverts, containers of other tasks left alone, and no site *)
(* without a task.                                                         *)
(***************************************************************************)
EXTENDS TaskLifecycle, TLAPS

(***************************************************************************)
(* Containers: the operators of that module keep the table typed, and a    *)
(* container that exists keeps its task and its specification for life.    *)
(***************************************************************************)
Evolves(d, e) ==
  \A k \in Cids :
    \/ e[k] = d[k] \/ d[k] = Unused \/ e[k] = Removed
    \/ /\ d[k] \in Container /\ e[k] \in Container
       /\ e[k].task = d[k].task /\ e[k].spec = d[k].spec

LEMMA EvolvesTransitive ==
  ASSUME NEW d \in DockerStates, NEW e \in DockerStates, NEW f \in DockerStates,
         Evolves(d, e), Evolves(e, f)
  PROVE  Evolves(d, f)
<1>. SUFFICES ASSUME NEW k \in Cids
              PROVE  \/ f[k] = d[k] \/ d[k] = Unused \/ f[k] = Removed
                     \/ /\ d[k] \in Container /\ f[k] \in Container
                        /\ f[k].task = d[k].task /\ f[k].spec = d[k].spec
  BY DEF Evolves
<1>. QED
  BY ContainersAssumption DEF Evolves

LEMMA StoppedEvolves ==
  ASSUME NEW d \in DockerStates, NEW k
  PROVE  Stopped(d, k) \in DockerStates /\ Evolves(d, Stopped(d, k))
  BY DEF Stopped, Evolves, DockerStates, Exists, Container, ContainerStates

LEMMA GoneEvolves ==
  ASSUME NEW d \in DockerStates, NEW k
  PROVE  Gone(d, k) \in DockerStates /\ Evolves(d, Gone(d, k))
  BY DEF Gone, Evolves, DockerStates, Exists

LEMMA StartedEvolves ==
  ASSUME NEW d \in DockerStates, NEW k, NEW e \in StartOutcomes(d, k)
  PROVE  e \in DockerStates /\ Evolves(d, e)
<1>1. CASE e = d
  BY <1>1 DEF Evolves
<1>2. CASE Exists(d, k) /\ \E a \in Addrs : e = Started(d, k, a)
  <2>1. PICK a \in Addrs : e = Started(d, k, a)
    BY <1>2
  <2>2. k \in Cids /\ d[k] \in Container
    BY <1>2 DEF Exists, DockerStates
  <2>. DEFINE new == [d[k] EXCEPT !.state = "running", !.addr = a]
  <2>3. new \in Container /\ new.task = d[k].task /\ new.spec = d[k].spec
    BY <2>2 DEF Container, ContainerStates
  <2>4. e = [d EXCEPT ![k] = new]
    BY <2>1 DEF Started
  <2>. HIDE DEF new
  <2>. QED
    BY <2>2, <2>3, <2>4 DEF Evolves, DockerStates
<1>. QED
  BY <1>1, <1>2 DEF StartOutcomes

LEMMA ReclaimedEvolves ==
  ASSUME NEW d \in DockerStates, NEW t
  PROVE  Reclaimed(d, t) \in DockerStates /\ Evolves(d, Reclaimed(d, t))
  BY DEF Reclaimed, Evolves, DockerStates

LEMMA CreateFailuresEvolve ==
  ASSUME NEW d \in DockerStates, NEW t, NEW e \in CreateFailures(d, t)
  PROVE  e \in DockerStates /\ Evolves(d, e)
  BY ReclaimedEvolves DEF CreateFailures, Evolves

LEMMA CreatedEvolves ==
  ASSUME NEW d \in DockerStates, NEW k \in Cids, d[k] = Unused,
         NEW t \in Tasks, NEW s \in Specs
  PROVE  /\ Created(d, k, t, s) \in DockerStates
         /\ Evolves(d, Created(d, k, t, s))
         /\ Created(d, k, t, s)[k] \in Container
         /\ Created(d, k, t, s)[k].task = t /\ Created(d, k, t, s)[k].spec = s
<1>. DEFINE new == [task |-> t, spec |-> s, state |-> "created", addr |-> NoAddr]
<1>1. new \in Container
  BY DEF Container, ContainerStates
<1>2. Created(d, k, t, s) = [Reclaimed(d, t) EXCEPT ![k] = new]
  BY DEF Created
<1>. HIDE DEF new
<1>3. new.task = t /\ new.spec = s
  BY DEF new
<1>4. Evolves(d, [Reclaimed(d, t) EXCEPT ![k] = new])
  BY ReclaimedEvolves DEF Evolves, DockerStates
<1>. QED
  BY <1>1, <1>2, <1>3, <1>4, ReclaimedEvolves DEF DockerStates

\* A removed or absent old container does not hide a fresh id.
LEMMA GoneKeepsFresh ==
  ASSUME NEW d \in DockerStates, NEW old, NEW k \in Cids, d[k] = Unused
  PROVE  Gone(d, old)[k] = Unused
  BY DEF Gone, Exists, DockerStates

(***************************************************************************)
(* Types are preserved.  Typed is the part of IInv that only says which    *)
(* values the variables and the locals of a request hold.                  *)
(***************************************************************************)
Typed == TypeOK /\ LocalsAssigned /\ BootAlone

USE DEF TypeOK, MaybeRow

LEMMA InitTyped == Init => Typed
  BY LifecycleAssumption, RegistryAssumption, TaskDataAssumption
  DEF Init, Typed, LocalsAssigned, Assigned, BootAlone, Job, Labels, RowFree, DockerStates,
      EmptySite, Site, TaskOf, OpOf, IsUpdate

\* A step of request c that is under way, and leaves its row in the table typed.
LEMMA StepTyped ==
  ASSUME Typed, NEW c \in Clients, at[c] # "idle",
         NEW label \in Labels, Go(c, label),
         job' \in [Clients -> Job \cup {NoJob}],
         \A b \in Clients \ {c} : job'[b] = job[b],
         Assigned(c)',
         row' \in [Tasks -> MaybeRow],
         docker' \in DockerStates,
         site' \in [Sites -> Site],
         holder' \in [Tasks -> SUBSET Clients],
         UNCHANGED process
  PROVE  Typed'
<1>1. phase = "up" /\ todo = todo' /\ repaired = repaired'
  BY DEF Typed, BootAlone, process
<1>2. at' = [at EXCEPT ![c] = label] /\ at' \in [Clients -> Labels]
  BY DEF Typed, Go
<1>3. ASSUME NEW b \in Clients \ {c} PROVE Assigned(b)'
  <2>1. at'[b] = at[b] /\ job'[b] = job[b] /\ Assigned(b)
    BY <1>2 DEF Typed, LocalsAssigned
  <2>. QED
    BY <2>1 DEF Assigned, TaskOf, OpOf, IsUpdate
<1>4. LocalsAssigned'
  BY <1>3 DEF LocalsAssigned
<1>5. BootAlone'
  BY <1>1 DEF Typed, BootAlone, process
<1>. QED
  BY <1>1, <1>2, <1>4, <1>5 DEF Typed, process

LEMMA RequestTyped ==
  ASSUME Typed, NEW c \in Clients, Request(c)
  PROVE  Typed'
<1>1. PICK op \in Ops, t \in Tasks :
        job' = [job EXCEPT ![c] = [op |-> op, task |-> t, row |-> NoRow, was |-> NoRow,
                                   next |-> NoRow, recreate |-> FALSE]]
  BY DEF Request
<1>2. job'[c] \in Job /\ job' \in [Clients -> Job \cup {NoJob}]
  BY <1>1, LifecycleAssumption DEF Typed, Job
<1>3. at' = [at EXCEPT ![c] = "waiting"] /\ at' \in [Clients -> Labels] /\ phase = "up"
  BY DEF Request, Typed, Go, Labels
<1>4. LocalsAssigned'
  <2>1. Assigned(c)'
    BY <1>2, <1>3, LifecycleAssumption
    DEF Typed, Assigned, RowFree, TaskOf, OpOf, IsUpdate
  <2>2. ASSUME NEW b \in Clients, b # c PROVE Assigned(b)'
    BY <2>2, <1>1, <1>3 DEF Typed, LocalsAssigned, Assigned, TaskOf, OpOf, IsUpdate
  <2>. QED
    BY <2>1, <2>2 DEF LocalsAssigned
<1>. QED
  BY <1>2, <1>3, <1>4 DEF Request, Typed, BootAlone, OnlyMoves, process

\* The operations that come by a label, where the locals depend on it.
Fits(c, label) ==
  /\ label = "reserve" => OpOf(c) = "create"
  /\ label = "saveSpec" => IsUpdate(c)
  /\ label = "publish" => OpOf(c) = "update"
  /\ label \in {"clear", "inspect", "remove", "drop"} => OpOf(c) = "delete"
  /\ label = "pull" => OpOf(c) \in {"create", "restart", "update", "deploy"}
  /\ label = "stop" => OpOf(c) \in {"stop", "delete", "update", "deploy"}
  /\ label = "unregister" => OpOf(c) \in {"stop", "restart", "update", "deploy"}

\* The labels at which Update holds the row it is going to save.
Pending == {"pull", "stop", "unregister", "saveSpec"}

\* tasks.Update, at any label from which it is called.
LEMMA PersistTyped ==
  ASSUME Typed, NEW c \in Clients,
         NEW label, label \notin RowFree, NEW r \in Row,
         NEW next \in Labels \ (Pending \cup {"idle"}), Fits(c, next),
         NEW failed \in Labels \ (Pending \cup {"idle"}), Fits(c, failed),
         Persist(c, label, r, next, failed)
  PROVE  Typed'
<1>1. at[c] \notin RowFree /\ job[c] \in Job /\ TaskOf(c) \in Tasks
  BY LifecycleAssumption
  DEF Typed, LocalsAssigned, Assigned, Persist, RowFree, Job, TaskOf
<1>2. Assigned(c)
  BY DEF Typed, LocalsAssigned
<1>3. CASE Go(c, next) /\ SetRow(c, r) /\ row' = [row EXCEPT ![TaskOf(c)] = r]
  <2>1. job' \in [Clients -> Job \cup {NoJob}]
    BY <1>1, <1>3 DEF Typed, SetRow, Job
  <2>2. Assigned(c)'
    BY <1>1, <1>2, <1>3, LifecycleAssumption, TaskDataAssumption
    DEF Typed, Assigned, SetRow, Job, Go, Fits, Pending, RowFree, TaskOf, OpOf, IsUpdate
  <2>. QED
    BY <1>1, <1>3, <2>1, <2>2, StepTyped
    DEF Typed, Persist, SetRow, RowFree, process
<1>4. CASE Go(c, failed) /\ UNCHANGED <<row, job>>
  <2>2. Assigned(c)'
    BY <1>1, <1>2, <1>4
    DEF Typed, Assigned, Go, Fits, Pending, RowFree, TaskOf, OpOf, IsUpdate
  <2>. QED
    BY <1>1, <1>4, <2>2, StepTyped DEF Typed, Persist, RowFree, process
<1>5. CASE Go(c, failed) /\ row' = [row EXCEPT ![TaskOf(c)] = r] /\ UNCHANGED job
  <2>2. Assigned(c)'
    BY <1>1, <1>2, <1>5
    DEF Typed, Assigned, Go, Fits, Pending, RowFree, TaskOf, OpOf, IsUpdate
  <2>. QED
    BY <1>1, <1>5, <2>2, StepTyped DEF Typed, Persist, RowFree, process
<1>. QED
  BY <1>3, <1>4, <1>5 DEF Persist

LEMMA UnderWay ==
  ASSUME Typed, NEW c \in Clients, at[c] # "idle"
  PROVE  /\ job[c] \in Job /\ TaskOf(c) \in Tasks /\ OpOf(c) \in AllOps
         /\ Assigned(c) /\ phase = "up"
  BY DEF Typed, LocalsAssigned, Assigned, BootAlone, Job, TaskOf, OpOf

\* A step that leaves the locals alone.
LEMMA MoveTyped ==
  ASSUME Typed, NEW c \in Clients, at[c] # "idle",
         NEW label \in Labels \ {"idle"}, Go(c, label), UNCHANGED job, Fits(c, label),
         label \notin RowFree => at[c] \notin RowFree,
         label \in Pending /\ IsUpdate(c) => at[c] \in Pending,
         row' \in [Tasks -> MaybeRow], docker' \in DockerStates,
         site' \in [Sites -> Site], holder' \in [Tasks -> SUBSET Clients],
         UNCHANGED process
  PROVE  Typed'
<1>1. Assigned(c)'
  BY UnderWay DEF Typed, Assigned, Fits, Pending, Go, TaskOf, OpOf, IsUpdate
<1>. QED
  BY <1>1, StepTyped DEF Typed

\* A step that replaces the request's copy of the row.
LEMMA SetRowTyped ==
  ASSUME Typed, NEW c \in Clients, at[c] \notin RowFree,
         NEW label \in Labels \ (Pending \cup {"idle"}), Go(c, label), Fits(c, label),
         NEW r \in Row, SetRow(c, r),
         row' \in [Tasks -> MaybeRow], docker' \in DockerStates,
         UNCHANGED <<site, holder, process>>
  PROVE  Typed'
<1>1. at[c] # "idle" /\ job[c] \in Job
  BY UnderWay DEF RowFree
<1>2. job' \in [Clients -> Job \cup {NoJob}]
  BY <1>1 DEF Typed, SetRow, Job
<1>3. Assigned(c)'
  BY <1>1, UnderWay, LifecycleAssumption
  DEF Typed, Assigned, SetRow, Job, Go, Fits, Pending, RowFree, TaskOf, OpOf, IsUpdate
<1>. QED
  BY <1>1, <1>2, <1>3, StepTyped DEF Typed, SetRow, process

\* The read an operation begins with.
LEMMA BeginTyped ==
  ASSUME Typed, NEW c \in Clients, at[c] = "read", row[TaskOf(c)] # NoRow,
         NEW label \in Labels \ {"idle"}, Go(c, label), Fits(c, label),
         NEW r \in Row, NEW next \in MaybeRow, NEW recreate \in BOOLEAN,
         Begin(c, r, next, recreate),
         label \in Pending /\ IsUpdate(c) => next \in Row,
         OnlyMoves
  PROVE  Typed'
<1>1. job[c] \in Job /\ row[TaskOf(c)] \in Row
  BY UnderWay DEF Typed
<1>. DEFINE new == [job[c] EXCEPT !.row = r, !.was = row[TaskOf(c)],
                                  !.next = next, !.recreate = recreate]
<1>2. /\ new \in Job /\ new # NoJob /\ new.op = job[c].op
      /\ new.row = r /\ new.was \in Row /\ new.next = next
  BY <1>1, LifecycleAssumption DEF Job
<1>3. job' = [job EXCEPT ![c] = new]
  BY DEF Begin
<1>. HIDE DEF new
<1>4. job'[c] = new /\ at'[c] = label
  BY <1>3 DEF Typed, Go
<1>5. Assigned(c)'
  BY <1>2, <1>4 DEF Assigned, Fits, Pending, OpOf, IsUpdate
<1>. QED
  BY <1>2, <1>3, <1>5, StepTyped DEF Typed, OnlyMoves, process

(***************************************************************************)
(* The actions of a request, one lemma for each operation.                 *)
(***************************************************************************)
LEMMA AdmissionTyped ==
  ASSUME Typed, NEW c \in Clients, Enter(c) \/ Unlock(c) \/ Refuse(c)
  PROVE  Typed'
<1>1. CASE Enter(c)
  <2>1. PICK label \in {"reserve", "read"} :
          Go(c, label) /\ (label = "reserve" => OpOf(c) = "create")
    BY <1>1 DEF Enter
  <2>2. holder' \in [Tasks -> SUBSET Clients]
    BY <1>1, UnderWay DEF Enter, Typed
  <2>. QED
    BY <1>1, <2>1, <2>2, MoveTyped
    DEF Enter, Typed, Labels, RowFree, Pending, Fits, process
<1>2. CASE Unlock(c)
  <2>1. holder' \in [Tasks -> SUBSET Clients] /\ job' \in [Clients -> Job \cup {NoJob}]
    BY <1>2, UnderWay DEF Unlock, Typed
  <2>2. Assigned(c)'
    BY <1>2, UnderWay
    DEF Unlock, Typed, Assigned, Go, RowFree, TaskOf, OpOf, IsUpdate
  <2>. QED
    BY <1>2, <2>1, <2>2, StepTyped DEF Unlock, Typed, Labels, process
<1>3. CASE Refuse(c)
  BY <1>3, MoveTyped
  DEF Refuse, Typed, OnlyMoves, Labels, RowFree, Pending, Fits, process
<1>. QED
  BY <1>1, <1>2, <1>3
LEMMA PersistActionsTyped ==
  ASSUME Typed, NEW c \in Clients,
         \/ PersistRunning(c) \/ FailTask(c) \/ PersistCreated(c) \/ MarkStarting(c)
         \/ PersistStopped(c) \/ MarkRestarting(c) \/ SaveMetadata(c) \/ SaveSpec(c)
         \/ SaveRecreated(c)
  PROVE  Typed'
<1>. DEFINE r == job[c].row
<1>1. at[c] \notin RowFree /\ r \in Row
  BY UnderWay
  DEF RowFree, Assigned, Persist, PersistRunning, FailTask, PersistCreated, MarkStarting,
      PersistStopped, MarkRestarting, SaveMetadata, SaveSpec, SaveRecreated
<1>2. /\ [r EXCEPT !.status = "error"] \in Row
      /\ [r EXCEPT !.status = "starting"] \in Row
      /\ [r EXCEPT !.status = "stopped", !.addr = NoAddr] \in Row
  BY <1>1 DEF Row, Statuses
<1>3. Returned(c) \in {"publish", "done"} /\ (Returned(c) = "publish" => OpOf(c) = "update")
  BY DEF Returned
<1>. HIDE DEF r
<1>4. CASE PersistRunning(c)
  BY <1>1, <1>4, PersistTyped DEF PersistRunning, RowFree, Labels, Fits, Pending, r
<1>5. CASE FailTask(c)
  BY <1>2, <1>3, <1>5, PersistTyped DEF FailTask, RowFree, Labels, Fits, Pending, r
<1>6. CASE PersistCreated(c)
  BY <1>1, <1>6, PersistTyped DEF PersistCreated, RowFree, Labels, Fits, Pending, r
<1>7. CASE MarkStarting(c)
  BY <1>1, <1>7, PersistTyped DEF MarkStarting, RowFree, Labels, Fits, Pending, r
<1>8. CASE PersistStopped(c)
  BY <1>2, <1>8, PersistTyped DEF PersistStopped, RowFree, Labels, Fits, Pending, r
<1>9. CASE MarkRestarting(c)
  BY <1>2, <1>9, PersistTyped DEF MarkRestarting, RowFree, Labels, Fits, Pending, r
<1>10. CASE SaveMetadata(c)
  BY <1>1, <1>3, <1>10, PersistTyped DEF SaveMetadata, RowFree, Labels, Fits, Pending, r
<1>11. CASE SaveSpec(c)
  <2>1. job[c].next \in Row
    BY <1>11, UnderWay DEF SaveSpec, Persist, Assigned
  <2>. QED
    BY <1>3, <1>11, <2>1, PersistTyped DEF SaveSpec, RowFree, Labels, Fits, Pending
<1>12. CASE SaveRecreated(c)
  BY <1>1, <1>3, <1>12, PersistTyped DEF SaveRecreated, RowFree, Labels, Fits, Pending, r
<1>. QED
  BY <1>4, <1>5, <1>6, <1>7, <1>8, <1>9, <1>10, <1>11, <1>12

\* The steps that only call Docker, and leave the locals alone.
LEMMA DockerCallsTyped ==
  ASSUME Typed, NEW c \in Clients,
         \/ Pull(c) \/ StopContainer(c) \/ StartContainer(c) \/ UndoCreate(c)
         \/ InspectForDelete(c) \/ RemoveContainer(c)
  PROVE  Typed'
<1>1. at[c] \notin RowFree /\ at[c] # "idle"
  BY DEF RowFree, Pull, StopContainer, StartContainer, UndoCreate, InspectForDelete,
         RemoveContainer
<1>2. OpOf(c) \in AllOps /\ Assigned(c)
  BY <1>1, UnderWay
<1>3. CASE Pull(c)
  <2>1. PICK label \in {"create", "unregister", "stop", "saveSpec", "fail", "done"} :
          /\ Go(c, label)
          /\ label = "unregister" => OpOf(c) = "restart"
          /\ label \in {"stop", "saveSpec"} => OpOf(c) \in {"update", "deploy"}
    BY <1>2, <1>3 DEF Pull, Assigned
  <2>. QED
    BY <1>1, <1>3, <2>1, MoveTyped
    DEF Pull, OnlyMoves, Typed, Labels, RowFree, Pending, Fits, IsUpdate, process
<1>4. CASE StopContainer(c)
  <2>1. PICK label \in {"remove", "unregister", "done", "fail"} :
          /\ Go(c, label)
          /\ label = "unregister" => OpOf(c) # "delete"
    BY <1>4 DEF StopContainer
  <2>2. docker' \in DockerStates
    BY <1>4, StoppedEvolves DEF StopContainer, Typed
  <2>. QED
    BY <1>1, <1>2, <1>4, <2>1, <2>2, MoveTyped
    DEF StopContainer, Assigned, OnlyDocker, Typed, Labels, RowFree, Pending, Fits, process
<1>5. CASE StartContainer(c)
  <2>1. docker' \in DockerStates
    BY <1>5, StartedEvolves DEF StartContainer, Typed
  <2>. QED
    BY <1>1, <1>5, <2>1, MoveTyped
    DEF StartContainer, OnlyDocker, Typed, Labels, RowFree, Pending, Fits, process
<1>6. CASE UndoCreate(c)
  <2>1. docker' \in DockerStates
    BY <1>6, GoneEvolves DEF UndoCreate, Typed
  <2>. QED
    BY <1>1, <1>6, <2>1, MoveTyped
    DEF UndoCreate, OnlyDocker, Typed, Labels, RowFree, Pending, Fits, process
<1>7. CASE InspectForDelete(c)
  <2>1. PICK label \in {"stop", "remove"} : Go(c, label)
    BY <1>7 DEF InspectForDelete
  <2>2. OpOf(c) = "delete"
    BY <1>2, <1>7 DEF InspectForDelete, Assigned
  <2>. QED
    BY <1>1, <1>7, <2>1, <2>2, MoveTyped
    DEF InspectForDelete, OnlyMoves, Typed, Labels, RowFree, Pending, Fits, IsUpdate, process
<1>8. CASE RemoveContainer(c)
  <2>1. docker' \in DockerStates
    BY <1>8, GoneEvolves DEF RemoveContainer, Typed
  <2>2. PICK label \in {"drop", "done"} : Go(c, label)
    BY <1>8 DEF RemoveContainer
  <2>3. OpOf(c) = "delete"
    BY <1>2, <1>8 DEF RemoveContainer, Assigned
  <2>. QED
    BY <1>1, <1>8, <2>1, <2>2, <2>3, MoveTyped
    DEF RemoveContainer, OnlyDocker, Typed, Labels, RowFree, Pending, Fits, process
<1>. QED
  BY <1>3, <1>4, <1>5, <1>6, <1>7, <1>8
\* The steps that call Docker and keep what it answers.
LEMMA ContainerChangesTyped ==
  ASSUME Typed, NEW c \in Clients,
         RecreateContainer(c) \/ CreateContainer(c) \/ AwaitReady(c)
  PROVE  Typed'
<1>. DEFINE t == TaskOf(c)
            r == job[c].row
<1>1. at[c] \notin RowFree /\ at[c] # "idle" /\ at[c] \notin Pending
  BY DEF RowFree, Pending, RecreateContainer, CreateContainer, AwaitReady
<1>2. t \in Tasks /\ r \in Row /\ r.spec \in Specs
  BY <1>1, UnderWay DEF Assigned, Row
<1>3. ASSUME Go(c, "fail"), UNCHANGED job, docker' \in DockerStates,
             UNCHANGED <<row, site, holder, process>>
      PROVE  Typed'
  BY <1>1, <1>3, MoveTyped DEF Typed, Labels, RowFree, Pending, Fits, process
<1>. HIDE DEF t, r
<1>4. CASE RecreateContainer(c)
  <2>. DEFINE gone == Gone(docker, r.cid)
  <2>1. gone \in DockerStates
    BY GoneEvolves DEF Typed
  <2>2. ASSUME NEW k \in Cids, docker[k] = Unused
        PROVE  Created(gone, k, t, r.spec) \in DockerStates
    <3>1. gone[k] = Unused
      BY <2>2, GoneKeepsFresh DEF Typed
    <3>. HIDE DEF gone
    <3>. QED
      BY <1>2, <2>1, <3>1, CreatedEvolves
  <2>3. CASE \E k \in {j \in Cids : docker[j] = Unused} :
               /\ docker' = Created(gone, k, t, r.spec)
               /\ SetRow(c, [r EXCEPT !.cid = k, !.pending = FALSE])
               /\ Go(c, AfterCreation(c))
    <3>1. PICK k \in Cids : /\ docker[k] = Unused
                            /\ docker' = Created(gone, k, t, r.spec)
                            /\ SetRow(c, [r EXCEPT !.cid = k, !.pending = FALSE])
                            /\ Go(c, AfterCreation(c))
      BY <2>3
    <3>2. docker' \in DockerStates /\ [r EXCEPT !.cid = k, !.pending = FALSE] \in Row
      BY <1>2, <2>2, <3>1 DEF Row
    <3>3. AfterCreation(c) \in {"markRestarting", "saveRecreated", "start"}
      BY DEF AfterCreation
    <3>. HIDE DEF gone
    <3>. QED
      BY <1>1, <1>4, <3>1, <3>2, <3>3, SetRowTyped
      DEF RecreateContainer, OnlyDocker, Typed, Labels, Pending, Fits
  <2>4. CASE Go(c, "fail") /\ UNCHANGED job
    <3>1. docker' \in DockerStates
      <4>1. CASE docker' \in {docker, Stopped(docker, r.cid), gone} \cup CreateFailures(gone, t)
        BY <2>1, <4>1, StoppedEvolves, CreateFailuresEvolve DEF Typed
      <4>2. CASE \E k \in {j \in Cids : docker[j] = Unused} :
                   docker' = Created(gone, k, t, r.spec)
        BY <2>2, <4>2
      <4>3. \/ docker' \in {docker, Stopped(docker, r.cid), gone} \cup CreateFailures(gone, t)
            \/ \E k \in {j \in Cids : docker[j] = Unused} :
                 docker' = Created(gone, k, t, r.spec)
            \/ Go(c, AfterCreation(c))
        BY <1>4 DEF RecreateContainer, r, t
      <4>4. AfterCreation(c) # "fail" /\ at'[c] = "fail"
        BY <1>1, <2>4 DEF Typed, AfterCreation, Go
      <4>. QED
        BY <4>1, <4>2, <4>3, <4>4 DEF Go, Typed
    <3>. QED
      BY <1>3, <1>4, <2>4, <3>1 DEF RecreateContainer, OnlyDocker
  <2>. QED
    BY <1>4, <2>3, <2>4 DEF RecreateContainer, r, t
<1>5. CASE CreateContainer(c)
  <2>1. ASSUME NEW k \in Cids, docker[k] = Unused
        PROVE  /\ Created(docker, k, t, r.spec) \in DockerStates
               /\ [r EXCEPT !.cid = k, !.status = "starting"] \in Row
    BY <1>2, <2>1, CreatedEvolves DEF Typed, Row, Statuses
  <2>2. CASE \E k \in {j \in Cids : docker[j] = Unused} :
               /\ docker' = Created(docker, k, t, r.spec)
               /\ SetRow(c, [r EXCEPT !.cid = k, !.status = "starting"])
               /\ Go(c, "persistCreated")
    BY <1>1, <1>5, <2>1, <2>2, SetRowTyped
    DEF CreateContainer, OnlyDocker, Typed, Labels, Pending, Fits
  <2>3. CASE /\ Go(c, "fail") /\ UNCHANGED job
             /\ \/ docker' \in {docker} \cup CreateFailures(docker, t)
                \/ \E k \in {j \in Cids : docker[j] = Unused} :
                     docker' = Created(docker, k, t, r.spec)
    <3>1. docker' \in DockerStates
      BY <2>1, <2>3, CreateFailuresEvolve DEF Typed
    <3>. QED
      BY <1>3, <1>5, <2>3, <3>1 DEF CreateContainer, OnlyDocker
  <2>. QED
    BY <1>5, <2>2, <2>3 DEF CreateContainer, r, t
<1>6. CASE AwaitReady(c)
  <2>1. CASE /\ Reachable(docker, r.cid)
             /\ SetRow(c, [r EXCEPT !.status = "running", !.pending = FALSE,
                                    !.addr = docker[r.cid].addr])
             /\ Go(c, "persistRunning")
    <3>1. docker[r.cid] \in Container
      BY <2>1 DEF Reachable, IsRunning, Exists, Typed, DockerStates
    <3>2. [r EXCEPT !.status = "running", !.pending = FALSE,
                    !.addr = docker[r.cid].addr] \in Row
      BY <1>2, <3>1 DEF Row, Statuses, Container
    <3>. QED
      BY <1>1, <1>6, <2>1, <3>2, SetRowTyped
      DEF AwaitReady, OnlyMoves, Typed, Labels, Pending, Fits
  <2>2. CASE Go(c, "fail") /\ UNCHANGED job
    BY <1>3, <1>6, <2>2 DEF AwaitReady, OnlyMoves, Typed
  <2>. QED
    BY <1>6, <2>1, <2>2 DEF AwaitReady, r
<1>. QED
  BY <1>4, <1>5, <1>6

\* The steps that only call the proxy registry.
LEMMA RegistryCallsTyped ==
  ASSUME Typed, NEW c \in Clients,
         Unregister(c) \/ Register(c) \/ Clear(c) \/ Publish(c)
  PROVE  Typed'
<1>. DEFINE t == TaskOf(c)
<1>1. at[c] \notin RowFree /\ at[c] # "idle"
  BY DEF RowFree, Unregister, Register, Clear, Publish
<1>2. /\ t \in Tasks /\ job[c].row \in Row /\ job[c] \in Job /\ Assigned(c)
      /\ SiteOf[t] \in Sites
  BY <1>1, UnderWay, RegistryAssumption DEF Assigned
<1>3. CASE Unregister(c)
  <2>1. site' \in [Sites -> Site]
    BY <1>2, <1>3 DEF Unregister, Unregistered, Typed, Site
  <2>. QED
    BY <1>1, <1>2, <1>3, <2>1, MoveTyped
    DEF Unregister, Assigned, OnlyRegistry, Typed, Labels, RowFree, Pending, Fits, IsUpdate,
        process
<1>4. CASE Register(c)
  <2>1. [addr |-> job[c].row.addr, conf |-> job[c].row.spec.conf] \in Hop
    BY <1>2, <1>4 DEF Register, Row, Specs, Hop
  <2>2. site' \in [Sites -> Site]
    BY <1>2, <1>4, <2>1 DEF Register, Registered, Typed, Site
  <2>. QED
    BY <1>1, <1>2, <1>4, <2>2, MoveTyped
    DEF Register, Returned, OnlyRegistry, Typed, Labels, RowFree, Pending, Fits, process
<1>5. CASE Clear(c)
  <2>1. site' \in [Sites -> Site]
    BY <1>2, <1>5, TaskDataAssumption DEF Clear, EmptySite, Typed, Site
  <2>. QED
    BY <1>1, <1>2, <1>5, <2>1, MoveTyped
    DEF Clear, Assigned, OnlyRegistry, Typed, Labels, RowFree, Pending, Fits, process
<1>6. CASE Publish(c)
  <2>1. job[c].row.routes \in RouteSets /\ job[c].row.hash \in Hashes
    BY <1>2 DEF Row
  <2>2. site' \in [Sites -> Site]
    BY <1>2, <1>6, <2>1 DEF Publish, WithRoutes, WithLock, Typed, Site
  <2>. QED
    BY <1>1, <1>2, <1>6, <2>2, MoveTyped
    DEF Publish, OnlyRegistry, Typed, Labels, RowFree, Pending, Fits, process
<1>. QED
  BY <1>3, <1>4, <1>5, <1>6

\* The steps that read or insert the row.
LEMMA ReadsTyped ==
  ASSUME Typed, NEW c \in Clients,
         \/ BeginStart(c) \/ BeginStop(c) \/ BeginRestart(c) \/ BeginDelete(c)
         \/ DeployAgain(c)
  PROVE  Typed'
<1>. DEFINE r == row[TaskOf(c)]
<1>1. at[c] = "read" /\ r # NoRow /\ r \in Row
  BY UnderWay
  DEF Reads, BeginStart, BeginStop, BeginRestart, BeginDelete, DeployAgain, Typed
<1>2. [r EXCEPT !.status = "starting"] \in Row
  BY <1>1 DEF Row, Statuses
<1>. HIDE DEF r
<1>3. CASE BeginStart(c)
  BY <1>1, <1>2, <1>3, BeginTyped
  DEF BeginStart, Reads, Labels, Fits, Pending, IsUpdate, r
<1>4. CASE BeginStop(c)
  BY <1>1, <1>4, BeginTyped DEF BeginStop, Reads, Labels, Fits, Pending, IsUpdate, r
<1>5. CASE BeginRestart(c)
  BY <1>1, <1>5, BeginTyped DEF BeginRestart, Reads, Labels, Fits, Pending, IsUpdate, r
<1>6. CASE BeginDelete(c)
  BY <1>1, <1>6, BeginTyped DEF BeginDelete, Reads, Labels, Fits, Pending, IsUpdate, r
<1>7. CASE DeployAgain(c)
  BY <1>7, MoveTyped
  DEF DeployAgain, Reads, OnlyMoves, Typed, Labels, RowFree, Fits, Pending, process
<1>. QED
  BY <1>3, <1>4, <1>5, <1>6, <1>7
LEMMA EditTyped ==
  ASSUME Typed, NEW c \in Clients, at[c] = "read", row[TaskOf(c)] # NoRow, IsUpdate(c),
         NEW want \in Specs, NEW routes \in RouteSets, NEW hash \in Hashes,
         NEW recreate \in BOOLEAN,
         EditTask(c, want, routes, hash, recreate), OnlyMoves
  PROVE  Typed'
<1>. DEFINE r == row[TaskOf(c)]
            edited == [r EXCEPT !.routes = routes, !.hash = hash]
<1>1. r \in Row
  BY UnderWay DEF Typed
<1>2. edited \in Row
  BY <1>1 DEF Row
<1>3. WithSpec(edited, want) \in Row
  BY <1>2 DEF WithSpec, Row, Statuses
<1>4. PICK label \in {"done", "save", "pull", "stop", "saveSpec"}, next \in MaybeRow :
        /\ Begin(c, edited, next, recreate)
        /\ Go(c, label)
        /\ label \in Pending => next \in Row
  <2>1. CASE Begin(c, edited, NoRow, recreate)
             /\ Go(c, IF edited = r THEN "done" ELSE "save")
    BY <2>1 DEF Pending
  <2>2. CASE /\ Begin(c, edited, WithSpec(edited, want), recreate)
             /\ Go(c, CASE recreate /\ want.image # r.spec.image -> "pull"
                        [] r.status = "running"                  -> "stop"
                        [] OTHER                                 -> "saveSpec")
    BY <1>3, <2>2
  <2>. QED
    BY <2>1, <2>2 DEF EditTask
<1>. HIDE DEF r, edited
<1>. QED
  BY <1>2, <1>4, BeginTyped DEF Labels, Fits, IsUpdate

LEMMA RowsTyped ==
  ASSUME Typed, NEW c \in Clients,
         BeginUpdate(c) \/ BeginDeploy(c) \/ Reserve(c) \/ DropRow(c)
  PROVE  Typed'
<1>1. CASE BeginUpdate(c)
  BY <1>1, EditTyped DEF BeginUpdate, Reads, IsUpdate
<1>2. CASE BeginDeploy(c)
  <2>. DEFINE r == row[TaskOf(c)]
  <2>1. r \in Row /\ OpOf(c) = "deploy" /\ at[c] = "read"
    BY <1>2, UnderWay DEF BeginDeploy, Reads, Typed
  <2>2. PICK image \in Images :
          EditTask(c, [r.spec EXCEPT !.image = image], r.routes, r.hash, TRUE)
    BY <1>2 DEF BeginDeploy
  <2>3. [r.spec EXCEPT !.image = image] \in Specs
    BY <2>1 DEF Row, Specs
  <2>4. r.routes \in RouteSets /\ r.hash \in Hashes
    BY <2>1 DEF Row
  <2>. QED
    BY <1>2, <2>1, <2>2, <2>3, <2>4, EditTyped DEF BeginDeploy, Reads, IsUpdate
<1>3. CASE Reserve(c)
  <2>1. PICK spec \in Specs :
          LET r == [status |-> "creating", spec |-> spec, cid |-> NoCid,
                    addr |-> NoAddr, pending |-> FALSE,
                    routes |-> NoRoutes, hash |-> NoHash]
          IN /\ row' = [row EXCEPT ![TaskOf(c)] = r]
             /\ \/ SetRow(c, r) /\ Go(c, "pull")
                \/ UNCHANGED job /\ Go(c, "done")
    BY <1>3 DEF Reserve
  <2>. DEFINE r == [status |-> "creating", spec |-> spec, cid |-> NoCid, addr |-> NoAddr,
                    pending |-> FALSE, routes |-> NoRoutes, hash |-> NoHash]
  <2>2. r \in Row
    BY TaskDataAssumption DEF Row, Statuses
  <2>3. job[c] \in Job /\ OpOf(c) = "create" /\ TaskOf(c) \in Tasks
    BY <1>3, UnderWay DEF Reserve, Assigned
  <2>4. row' = [row EXCEPT ![TaskOf(c)] = r] /\ row' \in [Tasks -> MaybeRow]
    BY <2>1, <2>2, <2>3 DEF Typed
  <2>5. at[c] = "reserve" /\ UNCHANGED <<docker, site, holder, process>>
    BY <1>3 DEF Reserve
  <2>6. CASE SetRow(c, r) /\ Go(c, "pull")
    <3>. DEFINE new == [job[c] EXCEPT !.row = r]
    <3>. HIDE DEF r
    <3>1. new \in Job /\ new # NoJob /\ new.op = "create" /\ new.row = r
      BY <2>2, <2>3, LifecycleAssumption DEF Job, OpOf
    <3>2. job' = [job EXCEPT ![c] = new]
      BY <2>6 DEF SetRow
    <3>. HIDE DEF new
    <3>3. Assigned(c)'
      BY <2>2, <2>6, <3>1, <3>2 DEF Typed, Go, Assigned, RowFree, OpOf, IsUpdate
    <3>. QED
      BY <2>4, <2>5, <2>6, <3>1, <3>2, <3>3, StepTyped DEF Typed, Labels, process
  <2>7. CASE UNCHANGED job /\ Go(c, "done")
    BY <2>4, <2>5, <2>7, MoveTyped DEF Typed, Labels, RowFree, Pending, Fits, process
  <2>. QED
    BY <2>1, <2>6, <2>7
<1>4. CASE DropRow(c)
  <2>1. row' \in [Tasks -> MaybeRow]
    BY <1>4 DEF DropRow, Typed
  <2>. QED
    BY <1>4, <2>1, MoveTyped
    DEF DropRow, Typed, Labels, RowFree, Pending, Fits, process
<1>. QED
  BY <1>1, <1>2, <1>3, <1>4

LEMMA RequestStepTyped ==
  ASSUME Typed, NEW c \in Clients, Step(c)
  PROVE  Typed'
  BY AdmissionTyped, PersistActionsTyped, DockerCallsTyped, ContainerChangesTyped,
     RegistryCallsTyped, ReadsTyped, RowsTyped
  DEF Step

(***************************************************************************)
(* The containers on their own, a crash, and startup.                      *)
(***************************************************************************)
LEMMA OthersTyped ==
  ASSUME Typed, NEW k \in Cids, Exit(k) \/ Revive(k) \/ Interfere(k)
  PROVE  Typed' /\ Evolves(docker, docker')
<1>1. docker' \in DockerStates /\ Evolves(docker, docker')
  <2>1. CASE Exit(k)
    BY <2>1
    DEF Exit, IsRunning, Exists, Typed, DockerStates, Container, ContainerStates, Evolves
  <2>2. CASE Revive(k)
    BY <2>2, StartedEvolves DEF Revive, Typed
  <2>3. CASE Interfere(k)
    BY <2>3, StoppedEvolves, GoneEvolves DEF Interfere, Typed
  <2>. QED
    BY <2>1, <2>2, <2>3
<1>2. Others
  BY DEF Exit, Revive, Interfere
<1>. QED
  BY <1>1, <1>2
  DEF Others, Typed, LocalsAssigned, Assigned, BootAlone, process, TaskOf, OpOf, IsUpdate

LEMMA CrashTyped ==
  ASSUME Typed, Crash
  PROVE  Typed'
  BY TaskDataAssumption, LifecycleAssumption, RegistryAssumption
  DEF Crash, Typed, LocalsAssigned, Assigned, BootAlone, Labels, RowFree, EmptySite, Site

LEMMA BootTyped ==
  ASSUME Typed, Boot
  PROVE  Typed'
  BY DEF Boot, Typed, LocalsAssigned, Assigned, BootAlone, TaskOf, OpOf, IsUpdate

LEMMA ListenTyped ==
  ASSUME Typed, Listen
  PROVE  Typed'
  BY DEF Listen, Saving, Typed, LocalsAssigned, Assigned, BootAlone, TaskOf, OpOf, IsUpdate

\* What Reconcile is going to save is the row it inspected, repaired.
LEMMA ReconcileTyped ==
  ASSUME Typed, NEW t \in Tasks, ReconcileTask(t)
  PROVE  /\ Typed'
         /\ repaired'[t] \in Row
         /\ repaired'[t].cid = row[t].cid /\ repaired'[t].spec = row[t].spec
         /\ repaired'[t].pending = row[t].pending
         /\ \A u \in Tasks \ {t} : repaired'[u] = repaired[u]
<1>. DEFINE r == row[t]
            k == r.cid
            base == WithLock(WithRoutes(site, t, r.routes), t, r.hash)
<1>1. phase = "boot" /\ t \in todo /\ r \in Row /\ SiteOf[t] \in Sites
  BY RegistryAssumption DEF ReconcileTask, Typed, BootAlone
<1>2. base \in [Sites -> Site]
  BY <1>1 DEF WithLock, WithRoutes, Typed, Site, Row
<1>. HIDE DEF base
<1>3. Unregistered(base, t) \in [Sites -> Site]
  BY <1>1, <1>2 DEF Unregistered, Site
<1>4. ASSUME Exists(docker, k)
      PROVE  /\ docker[k].addr \in Addrs \cup {NoAddr}
             /\ InspectStatuses(docker, k) \subseteq Statuses
             /\ Reachable(docker, k) =>
                  Registered(base, t, docker[k].addr, r.spec.conf) \in [Sites -> Site]
  <2>1. docker[k] \in Container
    BY <1>4 DEF Exists, Typed, DockerStates
  <2>2. InspectStatuses(docker, k) \subseteq Statuses
    BY <2>1 DEF InspectStatuses, Container, ContainerStates, Statuses
  <2>3. ASSUME Reachable(docker, k)
        PROVE  Registered(base, t, docker[k].addr, r.spec.conf) \in [Sites -> Site]
    <3>1. [addr |-> docker[k].addr, conf |-> r.spec.conf] \in Hop
      BY <1>1, <2>1, <2>3 DEF Reachable, Container, Row, Specs, Hop
    <3>. QED
      BY <1>1, <1>2, <3>1 DEF Registered, Site
  <2>. QED
    BY <2>1, <2>2, <2>3 DEF Container
<1>5. PICK new \in Row :
        /\ repaired' = [repaired EXCEPT ![t] = new]
        /\ new.cid = r.cid /\ new.spec = r.spec /\ new.pending = r.pending
        /\ site' \in [Sites -> Site]
  <2>1. CASE /\ site' = Unregistered(base, t)
             /\ repaired' = [repaired EXCEPT ![t] =
                  [r EXCEPT !.status = "unknown", !.addr = NoAddr]]
    <3>1. [r EXCEPT !.status = "unknown", !.addr = NoAddr] \in Row
      BY <1>1 DEF Row, Statuses
    <3>. QED
      BY <1>1, <1>3, <2>1, <3>1 DEF Row
  <2>2. CASE /\ Exists(docker, k)
             /\ site' = IF Reachable(docker, k)
                          THEN Registered(base, t, docker[k].addr, r.spec.conf)
                          ELSE Unregistered(base, t)
             /\ \E status \in InspectStatuses(docker, k) :
                  repaired' = [repaired EXCEPT ![t] =
                    [r EXCEPT !.status = status, !.addr = docker[k].addr]]
    <3>1. PICK status \in InspectStatuses(docker, k) :
            repaired' = [repaired EXCEPT ![t] =
              [r EXCEPT !.status = status, !.addr = docker[k].addr]]
      BY <2>2
    <3>2. [r EXCEPT !.status = status, !.addr = docker[k].addr] \in Row
      BY <1>1, <1>4, <2>2, <3>1 DEF Row
    <3>. QED
      BY <1>1, <1>3, <1>4, <2>2, <3>1, <3>2 DEF Row
  <2>. QED
    BY <2>1, <2>2 DEF ReconcileTask, base
<1>6. repaired' \in [Tasks -> MaybeRow] /\ repaired'[t] = new
  BY <1>5 DEF Typed
<1>7. Typed'
  BY <1>1, <1>5, <1>6
  DEF ReconcileTask, Typed, LocalsAssigned, Assigned, BootAlone, TaskOf, OpOf, IsUpdate
<1>. QED
  BY <1>5, <1>6, <1>7 DEF Typed

LEMMA ReconcileSaveTyped ==
  ASSUME Typed, NEW t \in Tasks, ReconcileSave(t)
  PROVE  Typed'
  BY TaskDataAssumption
  DEF ReconcileSave, Saving, Typed, LocalsAssigned, Assigned, BootAlone, TaskOf, OpOf, IsUpdate

LEMMA NextTyped ==
  ASSUME Typed, [Next]_vars
  PROVE  Typed'
<1>1. CASE Next
  BY <1>1, RequestTyped, AdmissionTyped, RequestStepTyped, OthersTyped, CrashTyped, BootTyped,
     ListenTyped, ReconcileTyped, ReconcileSaveTyped
  DEF Next, Startup
<1>2. CASE UNCHANGED vars
  BY <1>2
  DEF vars, process, Typed, LocalsAssigned, Assigned, BootAlone, TaskOf, OpOf, IsUpdate
<1>. QED
  BY <1>1, <1>2

\* Every variable always holds a value of its type, and a request reads none of
\* its local variables before it has assigned it, whatever calls fail and
\* whenever Boreas crashes.
THEOREM TypeCorrect == Spec => [](TypeOK /\ LocalsAssigned)
<1>1. Typed => TypeOK /\ LocalsAssigned
  BY DEF Typed
<1>. QED
  BY <1>1, InitTyped, NextTyped, PTL DEF Spec
(***************************************************************************)
(* pending_recreate can be trusted.  A copy of a row stays true of Docker  *)
(* whatever becomes of the containers (KeepTracks), so only the steps that *)
(* make a new copy have to be looked at, one by one.                       *)
(***************************************************************************)
Tracking == PendingTracksSpec /\ CopiesTrack /\ StartsCurrent

LEMMA KeepTracks ==
  ASSUME NEW d \in DockerStates, NEW e \in DockerStates, Evolves(d, e),
         NEW t, NEW r \in MaybeRow, Tracks(d, r, t)
  PROVE  Tracks(e, r, t)
<1>1. SUFFICES ASSUME r # NoRow, r.cid # NoCid
               PROVE  /\ e[r.cid] # Unused
                      /\ Exists(e, r.cid) => /\ e[r.cid].task = t
                                             /\ ~r.pending => e[r.cid].spec = r.spec
  BY DEF Tracks
<1>2. r.cid \in Cids
  BY <1>1 DEF Row
<1>. QED
  BY <1>1, <1>2, ContainersAssumption DEF Tracks, Evolves, Exists, DockerStates

\* Another copy of the same container's row.
LEMMA SameTracks ==
  ASSUME NEW d, NEW t, NEW r \in Row, NEW q \in Row, Tracks(d, r, t),
         q.cid = r.cid, q.pending \/ (~r.pending /\ q.spec = r.spec)
  PROVE  Tracks(d, q, t)
  BY TaskDataAssumption DEF Tracks

\* The row of a container just created from it.
LEMMA FreshTracks ==
  ASSUME NEW d \in DockerStates, NEW k \in Cids, NEW t, NEW r \in Row, r.cid = k,
         d[k] \in Container, d[k].task = t, d[k].spec = r.spec
  PROVE  Tracks(d, r, t)
  BY ContainersAssumption DEF Tracks

LEMMA NoRowTracks ==
  ASSUME NEW d, NEW t
  PROVE  Tracks(d, NoRow, t)
  BY DEF Tracks

LEMMA StepTracks ==
  ASSUME Typed, Typed', Tracking, NEW c \in Clients,
         at[c] # "idle" \/ phase = "up", UNCHANGED process,
         Evolves(docker, docker'),
         \A b \in Clients \ {c} : at'[b] = at[b] /\ job'[b] = job[b],
         \A t \in Tasks : row'[t] \in {row[t], NoRow} \/ Tracks(docker', row'[t], t),
         at'[c] # "idle" => /\ Tracks(docker', job'[c].row, TaskOf(c)')
                           /\ Tracks(docker', job'[c].next, TaskOf(c)'),
         at'[c] \in {"create", "persistCreated", "markRestarting", "start", "ready"}
             \/ (at'[c] = "pull" /\ OpOf(c)' = "create")
           => ~job'[c].row.pending
  PROVE  Tracking'
<1>1. ASSUME NEW t \in Tasks PROVE Tracks(docker, row[t], t)' /\ Tracks(docker, repaired[t], t)'
  <2>1. Tracks(docker', row[t], t)
    BY KeepTracks DEF Typed, Tracking, PendingTracksSpec
  <2>2. Tracks(docker', row'[t], t)
    BY <2>1, NoRowTracks
  <2>3. repaired'[t] = NoRow
    BY UnderWay DEF Typed, BootAlone, process
  <2>. QED
    BY <2>2, <2>3, NoRowTracks
<1>2. ASSUME NEW b \in Clients \ {c}, at'[b] # "idle"
      PROVE  Tracks(docker, job[b].row, TaskOf(b))' /\ Tracks(docker, job[b].next, TaskOf(b))'
  <2>1. at[b] # "idle" /\ job'[b] = job[b] /\ job[b] \in Job
    BY <1>2, UnderWay
  <2>2. job[b].row \in MaybeRow /\ job[b].next \in MaybeRow
    BY <2>1 DEF Job
  <2>3. Tracks(docker', job[b].row, TaskOf(b)) /\ Tracks(docker', job[b].next, TaskOf(b))
    BY <2>1, <2>2, KeepTracks DEF Typed, Tracking, CopiesTrack
  <2>. QED
    BY <2>1, <2>3 DEF TaskOf
<1>3. CopiesTrack'
  BY <1>1, <1>2 DEF CopiesTrack
<1>4. StartsCurrent'
  BY DEF Tracking, StartsCurrent, OpOf
<1>. QED
  BY <1>1, <1>3, <1>4 DEF Tracking, PendingTracksSpec

\* A step that makes no new copy.
LEMMA MoveTracks ==
  ASSUME Typed, Typed', Tracking, NEW c \in Clients, at[c] # "idle",
         NEW label \in Labels, Go(c, label), UNCHANGED <<job, process>>,
         Evolves(docker, docker'),
         \A t \in Tasks : row'[t] \in {row[t], NoRow},
         label \in {"create", "persistCreated", "markRestarting", "start", "ready"}
             \/ (label = "pull" /\ OpOf(c) = "create")
           => ~job[c].row.pending
  PROVE  Tracking'
<1>1. job[c].row \in MaybeRow /\ job[c].next \in MaybeRow
  BY UnderWay DEF Job
<1>2. Tracks(docker', job[c].row, TaskOf(c)) /\ Tracks(docker', job[c].next, TaskOf(c))
  BY <1>1, KeepTracks DEF Typed, Tracking, CopiesTrack
<1>. QED
  BY <1>2, StepTracks DEF Typed, Go, TaskOf, OpOf
\* tasks.Update, with a copy that is true of Docker.
LEMMA PersistTracks ==
  ASSUME Typed, Typed', Tracking, NEW c \in Clients, NEW label, label # "idle",
         NEW r \in Row, Tracks(docker, r, TaskOf(c)),
         NEW next \in Labels \ {"pull"}, NEW failed \in {"done", "publish", "undo"},
         next \in {"create", "persistCreated", "markRestarting", "start", "ready"} => ~r.pending,
         Persist(c, label, r, next, failed)
  PROVE  Tracking'
<1>1. at[c] = label /\ UNCHANGED <<docker, process>> /\ job[c] \in Job /\ TaskOf(c) \in Tasks
  BY UnderWay DEF Persist
<1>2. Evolves(docker, docker')
  BY <1>1 DEF Evolves
<1>3. CASE Go(c, next) /\ SetRow(c, r) /\ row' = [row EXCEPT ![TaskOf(c)] = r]
  <2>1. job'[c].row = r /\ job'[c].next = job[c].next /\ TaskOf(c)' = TaskOf(c)
    BY <1>1, <1>3 DEF SetRow, Typed, Job, TaskOf
  <2>2. Tracks(docker', job[c].next, TaskOf(c))
    BY <1>1 DEF Tracking, CopiesTrack
  <2>3. \A t \in Tasks : row'[t] \in {row[t], NoRow} \/ Tracks(docker', row'[t], t)
    BY <1>1, <1>3 DEF Typed
  <2>4. \A b \in Clients \ {c} : at'[b] = at[b] /\ job'[b] = job[b]
    BY <1>3 DEF Go, SetRow, Typed
  <2>. QED
    BY <1>1, <1>2, <1>3, <2>1, <2>2, <2>3, <2>4, StepTracks DEF Go, Typed
<1>4. CASE Go(c, failed) /\ UNCHANGED <<row, job>>
  BY <1>1, <1>2, <1>4, MoveTracks DEF Labels
<1>5. CASE Go(c, failed) /\ row' = [row EXCEPT ![TaskOf(c)] = r] /\ UNCHANGED job
  <2>1. \A t \in Tasks : row'[t] \in {row[t], NoRow} \/ Tracks(docker', row'[t], t)
    BY <1>1, <1>5 DEF Typed
  <2>2. Tracks(docker', job[c].row, TaskOf(c)) /\ Tracks(docker', job[c].next, TaskOf(c))
    BY <1>1 DEF Tracking, CopiesTrack
  <2>3. at'[c] = failed /\ \A b \in Clients \ {c} : at'[b] = at[b]
    BY <1>5 DEF Go, Typed
  <2>. QED
    BY <1>1, <1>2, <1>5, <2>1, <2>2, <2>3, StepTracks DEF TaskOf
<1>. QED
  BY <1>3, <1>4, <1>5 DEF Persist

LEMMA AdmissionTracks ==
  ASSUME Typed, Typed', Tracking, NEW c \in Clients,
         Request(c) \/ Enter(c) \/ Unlock(c) \/ Refuse(c)
  PROVE  Tracking'
<1>1. UNCHANGED <<docker, row, process>>
  BY DEF Request, Enter, Unlock, Refuse, OnlyMoves, process
<1>2. Evolves(docker, docker')
  BY <1>1 DEF Evolves
<1>3. CASE Request(c)
  <2>1. PICK op \in Ops, t \in Tasks :
          job' = [job EXCEPT ![c] = [op |-> op, task |-> t, row |-> NoRow, was |-> NoRow,
                                     next |-> NoRow, recreate |-> FALSE]]
    BY <1>3 DEF Request
  <2>2. job'[c].row = NoRow /\ job'[c].next = NoRow
    BY <2>1 DEF Typed
  <2>. QED
    BY <1>1, <1>2, <1>3, <2>1, <2>2, StepTracks, NoRowTracks DEF Request, Go, Typed
<1>4. CASE Enter(c)
  BY <1>1, <1>2, <1>4, MoveTracks DEF Enter, Labels, process
<1>5. CASE Unlock(c)
  BY <1>1, <1>2, <1>5, StepTracks DEF Unlock, Go, Typed
<1>6. CASE Refuse(c)
  BY <1>1, <1>2, <1>6, MoveTracks DEF Refuse, OnlyMoves, Labels, process
<1>. QED
  BY <1>3, <1>4, <1>5, <1>6

LEMMA PersistActionsTrack ==
  ASSUME Typed, Typed', Tracking, NEW c \in Clients,
         \/ PersistRunning(c) \/ FailTask(c) \/ PersistCreated(c) \/ MarkStarting(c)
         \/ PersistStopped(c) \/ MarkRestarting(c) \/ SaveMetadata(c) \/ SaveSpec(c)
         \/ SaveRecreated(c)
  PROVE  Tracking'
<1>. DEFINE r == job[c].row
<1>1. at[c] \notin RowFree /\ at[c] # "idle"
  BY DEF RowFree, Persist, PersistRunning, FailTask, PersistCreated, MarkStarting,
         PersistStopped, MarkRestarting, SaveMetadata, SaveSpec, SaveRecreated
<1>2. r \in Row /\ Tracks(docker, r, TaskOf(c)) /\ Tracks(docker, job[c].next, TaskOf(c))
  BY <1>1, UnderWay DEF Assigned, Tracking, CopiesTrack
<1>3. ASSUME NEW q \in {[r EXCEPT !.status = "error"], [r EXCEPT !.status = "starting"],
                        [r EXCEPT !.status = "stopped", !.addr = NoAddr]}
      PROVE  q \in Row /\ Tracks(docker, q, TaskOf(c)) /\ q.pending = r.pending
  <2>1. q \in Row /\ q.cid = r.cid /\ q.spec = r.spec /\ q.pending = r.pending
    BY <1>2, <1>3 DEF Row, Statuses
  <2>. QED
    BY <1>2, <2>1, SameTracks DEF Row
<1>4. Returned(c) \in {"publish", "done"}
  BY DEF Returned
<1>. HIDE DEF r
<1>5. CASE PersistRunning(c)
  BY <1>2, <1>5, PersistTracks DEF PersistRunning, Labels, r
<1>6. CASE FailTask(c)
  BY <1>3, <1>4, <1>6, PersistTracks DEF FailTask, Labels, r
<1>7. CASE PersistCreated(c)
  <2>1. ~r.pending
    BY <1>7 DEF PersistCreated, Persist, Tracking, StartsCurrent, r
  <2>. QED
    BY <1>2, <1>7, <2>1, PersistTracks DEF PersistCreated, Labels, r
<1>8. CASE MarkStarting(c)
  BY <1>2, <1>8, PersistTracks DEF MarkStarting, Labels, r
<1>9. CASE PersistStopped(c)
  BY <1>3, <1>9, PersistTracks DEF PersistStopped, Labels, r
<1>10. CASE MarkRestarting(c)
  <2>1. ~r.pending
    BY <1>10 DEF MarkRestarting, Persist, Tracking, StartsCurrent, r
  <2>. QED
    BY <1>3, <1>10, <2>1, PersistTracks DEF MarkRestarting, Labels, r
<1>11. CASE SaveMetadata(c)
  BY <1>2, <1>4, <1>11, PersistTracks DEF SaveMetadata, Labels, r
<1>12. CASE SaveSpec(c)
  <2>1. job[c].next \in Row
    BY <1>12, UnderWay DEF SaveSpec, Persist, Assigned
  <2>. QED
    BY <1>2, <1>4, <1>12, <2>1, PersistTracks DEF SaveSpec, Labels
<1>13. CASE SaveRecreated(c)
  BY <1>2, <1>4, <1>13, PersistTracks DEF SaveRecreated, Labels, r
<1>. QED
  BY <1>5, <1>6, <1>7, <1>8, <1>9, <1>10, <1>11, <1>12, <1>13

LEMMA MovesTrack ==
  ASSUME Typed, Typed', Tracking, NEW c \in Clients,
         \/ Pull(c) \/ StopContainer(c) \/ StartContainer(c) \/ UndoCreate(c)
         \/ InspectForDelete(c) \/ RemoveContainer(c)
         \/ Unregister(c) \/ Register(c) \/ Clear(c) \/ Publish(c)
         \/ DeployAgain(c) \/ DropRow(c)
  PROVE  Tracking'
<1>1. /\ at[c] # "idle" /\ UNCHANGED <<job, process>>
      /\ \A t \in Tasks : row'[t] \in {row[t], NoRow}
  BY DEF Pull, StopContainer, StartContainer, UndoCreate, InspectForDelete, RemoveContainer,
         Unregister, Register, Clear, Publish, DeployAgain, Reads, DropRow,
         OnlyMoves, OnlyDocker, OnlyRegistry, process, Typed
<1>2. Evolves(docker, docker')
  <2>1. CASE docker' = docker
    BY <2>1 DEF Evolves
  <2>2. CASE StopContainer(c) \/ StartContainer(c) \/ UndoCreate(c) \/ RemoveContainer(c)
    BY <2>1, <2>2, StoppedEvolves, StartedEvolves, GoneEvolves
    DEF StopContainer, StartContainer, UndoCreate, RemoveContainer, Typed
  <2>. QED
    BY <2>1, <2>2
    DEF Pull, InspectForDelete, Unregister, Register, Clear, Publish, DeployAgain, DropRow,
        OnlyMoves, OnlyRegistry
<1>3. PICK label \in Labels :
        /\ Go(c, label)
        /\ label \in {"create", "persistCreated", "markRestarting", "start", "ready"}
               \/ (label = "pull" /\ OpOf(c) = "create")
             => ~job[c].row.pending
  <2>1. CASE Pull(c)
    BY <2>1 DEF Pull, Labels, Tracking, StartsCurrent
  <2>2. CASE StopContainer(c) \/ StartContainer(c)
    BY <2>2 DEF StopContainer, StartContainer, Labels, Tracking, StartsCurrent
  <2>3. CASE UndoCreate(c) \/ InspectForDelete(c) \/ RemoveContainer(c) \/ Unregister(c)
    BY <2>3 DEF UndoCreate, InspectForDelete, RemoveContainer, Unregister, Labels
  <2>4. CASE Register(c) \/ Clear(c) \/ Publish(c) \/ DeployAgain(c) \/ DropRow(c)
    BY <2>4 DEF Register, Returned, Clear, Publish, DeployAgain, DropRow, Labels
  <2>. QED
    BY <2>1, <2>2, <2>3, <2>4
<1>. QED
  BY <1>1, <1>2, <1>3, MoveTracks
\* A step that replaces the request's copy of the row, or its next one.
LEMMA CopyTracks ==
  ASSUME Typed, Typed', Tracking, NEW c \in Clients, at[c] # "idle",
         NEW label \in Labels, Go(c, label), NEW new, job' = [job EXCEPT ![c] = new],
         new.task = job[c].task, new.op = job[c].op,
         Tracks(docker', new.row, TaskOf(c)), Tracks(docker', new.next, TaskOf(c)),
         label \in {"create", "persistCreated", "markRestarting", "start", "ready"}
             \/ (label = "pull" /\ OpOf(c) = "create")
           => ~new.row.pending,
         \A t \in Tasks : row'[t] = row[t] \/ Tracks(docker', row'[t], t),
         Evolves(docker, docker'), UNCHANGED process
  PROVE  Tracking'
<1>1. job'[c] = new /\ TaskOf(c)' = TaskOf(c) /\ OpOf(c)' = OpOf(c)
  BY DEF Typed, TaskOf, OpOf
<1>2. \A b \in Clients \ {c} : at'[b] = at[b] /\ job'[b] = job[b]
  BY DEF Go, Typed
<1>3. at'[c] = label
  BY DEF Go, Typed
<1>. QED
  BY <1>1, <1>2, <1>3, StepTracks

LEMMA ContainerChangesTrack ==
  ASSUME Typed, Typed', Tracking, NEW c \in Clients,
         RecreateContainer(c) \/ CreateContainer(c) \/ AwaitReady(c)
  PROVE  Tracking'
<1>. DEFINE t == TaskOf(c)
            r == job[c].row
            n == job[c].next
            fresh == {k \in Cids : docker[k] = Unused}
<1>1. at[c] \notin RowFree /\ at[c] # "idle"
  BY DEF RowFree, RecreateContainer, CreateContainer, AwaitReady
<1>2. /\ t \in Tasks /\ r \in Row /\ r.spec \in Specs /\ job[c] \in Job /\ n \in MaybeRow
      /\ Tracks(docker, r, t) /\ Tracks(docker, n, t)
  BY <1>1, UnderWay DEF Assigned, Row, Job, Tracking, CopiesTrack
<1>3. UNCHANGED <<row, process>>
  BY DEF RecreateContainer, CreateContainer, AwaitReady, OnlyDocker, OnlyMoves, process
<1>. HIDE DEF t, r, n
<1>4. ASSUME Evolves(docker, docker'), Go(c, "fail"), UNCHANGED job
      PROVE  Tracking'
  BY <1>1, <1>3, <1>4, MoveTracks DEF Labels
<1>5. ASSUME Evolves(docker, docker'), NEW q \in Row, SetRow(c, q), Tracks(docker', q, t),
             NEW label \in Labels, Go(c, label),
             label \in {"create", "persistCreated", "markRestarting", "start", "ready"}
               => ~q.pending,
             label # "pull"
      PROVE  Tracking'
  <2>. DEFINE new == [job[c] EXCEPT !.row = q]
  <2>1. /\ new.task = job[c].task /\ new.op = job[c].op /\ new.row = q /\ new.next = n
        /\ job' = [job EXCEPT ![c] = new]
    BY <1>2, <1>5 DEF Job, SetRow, n
  <2>2. Tracks(docker', n, t)
    BY <1>2, <1>5, KeepTracks DEF Typed
  <2>. HIDE DEF new
  <2>. QED
    BY <1>1, <1>3, <1>5, <2>1, <2>2, CopyTracks DEF t
<1>6. CASE RecreateContainer(c)
  <2>. DEFINE gone == Gone(docker, r.cid)
  <2>1. gone \in DockerStates /\ Evolves(docker, gone)
    BY GoneEvolves DEF Typed
  <2>2. ASSUME NEW k \in fresh
        PROVE  LET e == Created(gone, k, t, r.spec)
               IN /\ e \in DockerStates /\ Evolves(docker, e)
                  /\ e[k] \in Container /\ e[k].task = t /\ e[k].spec = r.spec
    <3>1. gone[k] = Unused
      BY <2>2, GoneKeepsFresh DEF Typed
    <3>. HIDE DEF gone
    <3>2. LET e == Created(gone, k, t, r.spec)
          IN /\ e \in DockerStates /\ Evolves(gone, e)
             /\ e[k] \in Container /\ e[k].task = t /\ e[k].spec = r.spec
      BY <1>2, <2>1, <2>2, <3>1, CreatedEvolves
    <3>. QED
      BY <2>1, <3>2, EvolvesTransitive DEF Typed
  <2>3. CASE \E k \in fresh :
               /\ docker' = Created(gone, k, t, r.spec)
               /\ SetRow(c, [r EXCEPT !.cid = k, !.pending = FALSE])
               /\ Go(c, AfterCreation(c))
    <3>1. PICK k \in fresh : /\ docker' = Created(gone, k, t, r.spec)
                             /\ SetRow(c, [r EXCEPT !.cid = k, !.pending = FALSE])
                             /\ Go(c, AfterCreation(c))
      BY <2>3
    <3>. DEFINE q == [r EXCEPT !.cid = k, !.pending = FALSE]
    <3>2. q \in Row /\ q.cid = k /\ q.spec = r.spec /\ ~q.pending
      BY <1>2 DEF Row
    <3>. HIDE DEF q, gone
    <3>3. Tracks(docker', q, t)
      BY <2>2, <3>1, <3>2, FreshTracks
    <3>4. AfterCreation(c) \in {"markRestarting", "saveRecreated", "start"}
      BY DEF AfterCreation
    <3>. QED
      BY <1>5, <2>2, <3>1, <3>2, <3>3, <3>4 DEF Labels, q
  <2>4. CASE /\ Go(c, "fail") /\ UNCHANGED job
             /\ \/ docker' \in {docker, Stopped(docker, r.cid), gone} \cup CreateFailures(gone, t)
                \/ \E k \in fresh : docker' = Created(gone, k, t, r.spec)
    <3>1. CASE docker' \in {docker, Stopped(docker, r.cid), gone}
      BY <1>4, <2>1, <2>4, <3>1, StoppedEvolves DEF Typed, Evolves
    <3>2. CASE docker' \in CreateFailures(gone, t)
      <4>. HIDE DEF gone
      <4>1. docker' \in DockerStates /\ Evolves(gone, docker')
        BY <2>1, <3>2, CreateFailuresEvolve
      <4>2. Evolves(docker, docker')
        BY <2>1, <4>1, EvolvesTransitive DEF Typed
      <4>. QED
        BY <1>4, <2>4, <4>2
    <3>3. CASE \E k \in fresh : docker' = Created(gone, k, t, r.spec)
      BY <1>4, <2>2, <2>4, <3>3
    <3>. QED
      BY <2>4, <3>1, <3>2, <3>3
  <2>. QED
    BY <1>6, <2>3, <2>4 DEF RecreateContainer, r, t
<1>7. CASE CreateContainer(c)
  <2>1. ~r.pending
    BY <1>7 DEF CreateContainer, Tracking, StartsCurrent, r
  <2>2. ASSUME NEW k \in fresh
        PROVE  LET e == Created(docker, k, t, r.spec)
               IN /\ e \in DockerStates /\ Evolves(docker, e)
                  /\ e[k] \in Container /\ e[k].task = t /\ e[k].spec = r.spec
    BY <1>2, <2>2, CreatedEvolves DEF Typed
  <2>3. CASE \E k \in fresh :
               /\ docker' = Created(docker, k, t, r.spec)
               /\ SetRow(c, [r EXCEPT !.cid = k, !.status = "starting"])
               /\ Go(c, "persistCreated")
    <3>1. PICK k \in fresh : /\ docker' = Created(docker, k, t, r.spec)
                             /\ SetRow(c, [r EXCEPT !.cid = k, !.status = "starting"])
                             /\ Go(c, "persistCreated")
      BY <2>3
    <3>. DEFINE q == [r EXCEPT !.cid = k, !.status = "starting"]
    <3>2. q \in Row /\ q.cid = k /\ q.spec = r.spec /\ ~q.pending
      BY <1>2, <2>1 DEF Row, Statuses
    <3>. HIDE DEF q
    <3>3. Tracks(docker', q, t)
      BY <2>2, <3>1, <3>2, FreshTracks
    <3>. QED
      BY <1>5, <2>2, <3>1, <3>2, <3>3 DEF Labels, q
  <2>4. CASE /\ Go(c, "fail") /\ UNCHANGED job
             /\ \/ docker' \in {docker} \cup CreateFailures(docker, t)
                \/ \E k \in fresh : docker' = Created(docker, k, t, r.spec)
    BY <1>4, <2>2, <2>4, CreateFailuresEvolve DEF Typed, Evolves
  <2>. QED
    BY <1>7, <2>3, <2>4 DEF CreateContainer, r, t
<1>8. CASE AwaitReady(c)
  <2>1. docker' = docker /\ Evolves(docker, docker') /\ ~r.pending
    BY <1>8 DEF AwaitReady, OnlyMoves, Evolves, Tracking, StartsCurrent, r
  <2>2. CASE /\ Reachable(docker, r.cid)
             /\ SetRow(c, [r EXCEPT !.status = "running", !.pending = FALSE,
                                    !.addr = docker[r.cid].addr])
             /\ Go(c, "persistRunning")
    <3>. DEFINE q == [r EXCEPT !.status = "running", !.pending = FALSE,
                               !.addr = docker[r.cid].addr]
    <3>1. docker[r.cid].addr \in Addrs \cup {NoAddr}
      BY <2>2 DEF Reachable, IsRunning, Exists, Typed, DockerStates, Container
    <3>2. q \in Row /\ q.cid = r.cid /\ q.spec = r.spec /\ ~q.pending
      BY <1>2, <3>1 DEF Row, Statuses
    <3>. HIDE DEF q
    <3>3. Tracks(docker', q, t)
      BY <1>2, <2>1, <3>2, SameTracks
    <3>. QED
      BY <1>5, <2>1, <2>2, <3>2, <3>3 DEF Labels, q
  <2>3. CASE Go(c, "fail") /\ UNCHANGED job
    BY <1>4, <2>1, <2>3
  <2>. QED
    BY <1>8, <2>2, <2>3 DEF AwaitReady, r
<1>. QED
  BY <1>6, <1>7, <1>8
\* The read an operation begins with: its copies are of the row as it stands.
LEMMA BeginTracks ==
  ASSUME Typed, Typed', Tracking, NEW c \in Clients, Reads(c, OpOf(c)),
         NEW label \in Labels \ {"create", "persistCreated", "markRestarting", "start", "ready"},
         Go(c, label), OpOf(c) # "create",
         NEW r, NEW next, NEW recreate, Begin(c, r, next, recreate),
         Tracks(docker, r, TaskOf(c)), Tracks(docker, next, TaskOf(c)), OnlyMoves
  PROVE  Tracking'
<1>. DEFINE new == [job[c] EXCEPT !.row = r, !.was = row[TaskOf(c)],
                                  !.next = next, !.recreate = recreate]
<1>1. at[c] # "idle" /\ job[c] \in Job
  BY UnderWay DEF Reads
<1>2. /\ new.task = job[c].task /\ new.op = job[c].op /\ new.row = r /\ new.next = next
      /\ job' = [job EXCEPT ![c] = new]
  BY <1>1 DEF Job, Begin
<1>. HIDE DEF new
<1>3. /\ docker' = docker /\ Evolves(docker, docker') /\ UNCHANGED process
      /\ \A t \in Tasks : row'[t] = row[t]
  BY DEF OnlyMoves, Evolves
<1>. QED
  BY <1>1, <1>2, <1>3, CopyTracks

LEMMA ReadsTrack ==
  ASSUME Typed, Typed', Tracking, NEW c \in Clients,
         BeginStart(c) \/ BeginStop(c) \/ BeginRestart(c) \/ BeginDelete(c)
  PROVE  Tracking'
<1>. DEFINE r == row[TaskOf(c)]
            q == [r EXCEPT !.status = "starting"]
<1>1. OpOf(c) \in {"start", "stop", "restart", "delete"} /\ Reads(c, OpOf(c)) /\ OnlyMoves
  BY DEF Reads, BeginStart, BeginStop, BeginRestart, BeginDelete
<1>2. r \in Row /\ Tracks(docker, r, TaskOf(c))
  BY <1>1, UnderWay DEF Reads, Typed, Tracking, PendingTracksSpec
<1>3. q \in Row /\ q.cid = r.cid /\ q.spec = r.spec /\ q.pending = r.pending
  BY <1>2 DEF Row, Statuses
<1>4. Tracks(docker, q, TaskOf(c))
  BY <1>2, <1>3, SameTracks DEF Row
<1>5. PICK label \in {"markStarting", "unregister", "stop", "pull", "clear"}, p \in {q, r} :
        Go(c, label) /\ Begin(c, p, NoRow, FALSE)
  BY DEF BeginStart, BeginStop, BeginRestart, BeginDelete
<1>. HIDE DEF r, q
<1>6. Tracks(docker, p, TaskOf(c)) /\ Tracks(docker, NoRow, TaskOf(c))
  BY <1>2, <1>4, NoRowTracks
<1>. QED
  BY <1>1, <1>5, <1>6, BeginTracks DEF Labels

LEMMA EditTracks ==
  ASSUME Typed, Typed', Tracking, NEW c \in Clients, Reads(c, OpOf(c)), IsUpdate(c),
         NEW want \in Specs, NEW routes \in RouteSets, NEW hash \in Hashes,
         NEW recreate \in BOOLEAN,
         EditTask(c, want, routes, hash, recreate), OnlyMoves
  PROVE  Tracking'
<1>. DEFINE r == row[TaskOf(c)]
            edited == [r EXCEPT !.routes = routes, !.hash = hash]
            wanted == WithSpec(edited, want)
<1>1. r \in Row /\ Tracks(docker, r, TaskOf(c)) /\ OpOf(c) # "create"
  BY UnderWay DEF Reads, Typed, Tracking, PendingTracksSpec, IsUpdate
<1>2. /\ edited \in Row /\ edited.cid = r.cid /\ edited.spec = r.spec
      /\ edited.pending = r.pending
  BY <1>1 DEF Row
<1>3. Tracks(docker, edited, TaskOf(c))
  BY <1>1, <1>2, SameTracks DEF Row
<1>4. wanted \in Row /\ wanted.cid = edited.cid /\ wanted.pending
  BY <1>2 DEF WithSpec, Row, Statuses
<1>5. Tracks(docker, wanted, TaskOf(c))
  BY <1>2, <1>3, <1>4, SameTracks
<1>6. PICK label \in {"done", "save", "pull", "stop", "saveSpec"}, next \in {NoRow, wanted} :
        Begin(c, edited, next, recreate) /\ Go(c, label)
  <2>1. CASE Begin(c, edited, NoRow, recreate)
             /\ Go(c, IF edited = r THEN "done" ELSE "save")
    BY <2>1
  <2>2. CASE /\ Begin(c, edited, wanted, recreate)
             /\ Go(c, CASE recreate /\ want.image # r.spec.image -> "pull"
                        [] r.status = "running"                  -> "stop"
                        [] OTHER                                 -> "saveSpec")
    BY <2>2
  <2>. QED
    BY <2>1, <2>2 DEF EditTask
<1>. HIDE DEF r, edited, wanted
<1>7. Tracks(docker, next, TaskOf(c))
  BY <1>5, NoRowTracks
<1>. QED
  BY <1>1, <1>3, <1>6, <1>7, BeginTracks DEF Labels

LEMMA RowsTrack ==
  ASSUME Typed, Typed', Tracking, NEW c \in Clients,
         BeginUpdate(c) \/ BeginDeploy(c) \/ Reserve(c)
  PROVE  Tracking'
<1>1. CASE BeginUpdate(c)
  BY <1>1, EditTracks DEF BeginUpdate, Reads, IsUpdate
<1>2. CASE BeginDeploy(c)
  <2>. DEFINE r == row[TaskOf(c)]
  <2>1. r \in Row /\ OpOf(c) = "deploy" /\ Reads(c, OpOf(c)) /\ OnlyMoves
    BY <1>2, UnderWay DEF BeginDeploy, Reads, Typed
  <2>2. PICK image \in Images :
          EditTask(c, [r.spec EXCEPT !.image = image], r.routes, r.hash, TRUE)
    BY <1>2 DEF BeginDeploy
  <2>3. [r.spec EXCEPT !.image = image] \in Specs /\ r.routes \in RouteSets /\ r.hash \in Hashes
    BY <2>1 DEF Row, Specs
  <2>. QED
    BY <2>1, <2>2, <2>3, EditTracks DEF IsUpdate
<1>3. CASE Reserve(c)
  <2>1. PICK spec \in Specs :
          LET r == [status |-> "creating", spec |-> spec, cid |-> NoCid,
                    addr |-> NoAddr, pending |-> FALSE,
                    routes |-> NoRoutes, hash |-> NoHash]
          IN /\ row' = [row EXCEPT ![TaskOf(c)] = r]
             /\ \/ SetRow(c, r) /\ Go(c, "pull")
                \/ UNCHANGED job /\ Go(c, "done")
    BY <1>3 DEF Reserve
  <2>. DEFINE r == [status |-> "creating", spec |-> spec, cid |-> NoCid, addr |-> NoAddr,
                    pending |-> FALSE, routes |-> NoRoutes, hash |-> NoHash]
              new == [job[c] EXCEPT !.row = r]
  <2>2. at[c] = "reserve" /\ job[c] \in Job /\ TaskOf(c) \in Tasks
    BY <1>3, UnderWay DEF Reserve
  <2>3. docker' = docker /\ Evolves(docker, docker') /\ UNCHANGED process
    BY <1>3 DEF Reserve, Evolves
  <2>4. r.cid = NoCid /\ ~r.pending /\ row' = [row EXCEPT ![TaskOf(c)] = r]
    BY <2>1
  <2>. HIDE DEF r
  <2>5. Tracks(docker', r, TaskOf(c)) /\ Tracks(docker', job[c].next, TaskOf(c))
    BY <2>2, <2>3, <2>4 DEF Tracks, Tracking, CopiesTrack
  <2>6. \A t \in Tasks : row'[t] = row[t] \/ Tracks(docker', row'[t], t)
    BY <2>2, <2>4, <2>5 DEF Typed
  <2>7. CASE SetRow(c, r) /\ Go(c, "pull")
    <3>1. /\ new.task = job[c].task /\ new.op = job[c].op
          /\ new.row = r /\ new.next = job[c].next
      BY <2>2 DEF Job
    <3>2. job' = [job EXCEPT ![c] = new]
      BY <2>7 DEF SetRow
    <3>. HIDE DEF new
    <3>. QED
      BY <2>2, <2>3, <2>4, <2>5, <2>6, <2>7, <3>1, <3>2, CopyTracks DEF Labels
  <2>8. CASE UNCHANGED job /\ Go(c, "done")
    <3>1. at'[c] = "done" /\ \A b \in Clients \ {c} : at'[b] = at[b]
      BY <2>8 DEF Go, Typed
    <3>2. Tracks(docker', job[c].row, TaskOf(c))
      BY <2>2, <2>3 DEF Tracking, CopiesTrack
    <3>. QED
      BY <2>2, <2>3, <2>5, <2>6, <2>8, <3>1, <3>2, StepTracks DEF TaskOf
  <2>. QED
    BY <2>1, <2>7, <2>8 DEF r
<1>. QED
  BY <1>1, <1>2, <1>3

LEMMA RequestStepTracks ==
  ASSUME Typed, Typed', Tracking, NEW c \in Clients, Step(c)
  PROVE  Tracking'
  BY AdmissionTracks, PersistActionsTrack, MovesTrack, ContainerChangesTrack, ReadsTrack, RowsTrack
  DEF Step

LEMMA InitTracking == Init => Tracking
  BY NoRowTracks DEF Init, Tracking, PendingTracksSpec, CopiesTrack, StartsCurrent

\* Reconcile saves a copy of the row it inspected; nothing else of the process
\* makes one.
LEMMA ProcessTracks ==
  ASSUME Typed, Typed', Tracking,
         \/ Crash \/ Startup
         \/ \E k \in Cids : Exit(k) \/ Revive(k) \/ Interfere(k)
  PROVE  Tracking'
<1>1. CASE Crash
  BY <1>1, NoRowTracks
  DEF Crash, Typed, Tracking, PendingTracksSpec, CopiesTrack, StartsCurrent
<1>2. CASE Boot \/ Listen
  BY <1>2
  DEF Boot, Listen, Tracking, PendingTracksSpec, CopiesTrack, StartsCurrent, TaskOf, OpOf
<1>3. ASSUME NEW t \in Tasks, ReconcileTask(t) PROVE Tracking'
  <2>1. row[t] \in Row /\ Tracks(docker, row[t], t)
    BY <1>3 DEF ReconcileTask, Typed, BootAlone, Tracking, PendingTracksSpec
  <2>2. Tracks(docker, repaired'[t], t)
    BY <1>3, <2>1, ReconcileTyped, SameTracks DEF Row
  <2>3. \A u \in Tasks : Tracks(docker, repaired'[u], u)
    BY <1>3, <2>2, ReconcileTyped DEF Tracking, CopiesTrack
  <2>4. UNCHANGED <<row, docker, at, job>>
    BY <1>3 DEF ReconcileTask
  <2>. QED
    BY <2>3, <2>4
    DEF Tracking, PendingTracksSpec, CopiesTrack, StartsCurrent, TaskOf, OpOf
<1>4. ASSUME NEW t \in Tasks, ReconcileSave(t) PROVE Tracking'
  <2>1. \A u \in Tasks : row'[u] \in {row[u], repaired[u]} /\ repaired'[u] \in {repaired[u], NoRow}
    BY <1>4 DEF ReconcileSave, Typed
  <2>2. UNCHANGED <<docker, at, job>>
    BY <1>4 DEF ReconcileSave
  <2>. QED
    BY <2>1, <2>2, NoRowTracks
    DEF Tracking, PendingTracksSpec, CopiesTrack, StartsCurrent, TaskOf, OpOf
<1>5. ASSUME NEW k \in Cids, Exit(k) \/ Revive(k) \/ Interfere(k) PROVE Tracking'
  <2>1. Evolves(docker, docker') /\ UNCHANGED <<row, at, job, process>>
    BY <1>5, OthersTyped DEF Exit, Revive, Interfere, Others
  <2>2. \A t \in Tasks : Tracks(docker', row[t], t) /\ Tracks(docker', repaired[t], t)
    BY <2>1, KeepTracks DEF Typed, Tracking, PendingTracksSpec, CopiesTrack
  <2>3. ASSUME NEW c \in Clients, at[c] # "idle"
        PROVE  Tracks(docker', job[c].row, TaskOf(c)) /\ Tracks(docker', job[c].next, TaskOf(c))
    <3>1. job[c].row \in MaybeRow /\ job[c].next \in MaybeRow
      BY <2>3, UnderWay DEF Job
    <3>. QED
      BY <2>1, <2>3, <3>1, KeepTracks DEF Typed, Tracking, CopiesTrack
  <2>. QED
    BY <2>1, <2>2, <2>3
    DEF Tracking, PendingTracksSpec, CopiesTrack, StartsCurrent, TaskOf, OpOf, process
<1>. QED
  BY <1>1, <1>2, <1>3, <1>4, <1>5 DEF Startup

LEMMA NextTracking ==
  ASSUME Typed, Tracking, [Next]_vars
  PROVE  Typed' /\ Tracking'
<1>1. Typed'
  BY NextTyped
<1>2. CASE Next
  BY <1>1, <1>2, AdmissionTracks, RequestStepTracks, ProcessTracks DEF Next
<1>3. CASE UNCHANGED vars
  BY <1>1, <1>3
  DEF vars, process, Tracking, PendingTracksSpec, CopiesTrack, StartsCurrent, TaskOf, OpOf
<1>. QED
  BY <1>1, <1>2, <1>3

\* Whatever calls fail and whenever Boreas crashes, the rows, every copy of one
\* that a request or Reconcile is still going to write, and Docker's containers
\* agree: the inductive invariant behind the theorems of this module.
THEOREM IInvHolds == Spec => []IInv
<1>1. Init => Typed /\ Tracking
  BY InitTyped, InitTracking
<1>2. Typed /\ Tracking /\ [Next]_vars => (Typed /\ Tracking)'
  BY NextTracking
<1>3. Typed /\ Tracking <=> IInv
  BY DEF Typed, Tracking, IInv
<1>. QED
  BY <1>1, <1>2, <1>3, PTL DEF Spec

\* Unless its row is marked pending_recreate, a task's container was made from
\* the row's image, port, labels, environment and volumes: Start and Restart
\* never bring up a stale one, whichever calls failed and whenever Boreas
\* crashed before.
THEOREM PendingRecreateTrusted == Spec => []PendingTracksSpec
<1>1. IInv => PendingTracksSpec
  BY DEF IInv
<1>. QED
  BY <1>1, IInvHolds, PTL
(***************************************************************************)
(* One request at a time is inside a task's mutex, so the copies of the    *)
(* row it works on keep the row's routes and password, or are an Update's. *)
(***************************************************************************)
Inside(c) == at[c] \notin {"idle", "waiting"}

Mutex == \A c \in Clients : Inside(c) => holder[TaskOf(c)] = {c}

LEMMA Alone ==
  ASSUME Mutex, NEW b \in Clients, NEW c \in Clients, Inside(b), Inside(c), TaskOf(b) = TaskOf(c)
  PROVE  b = c
  BY DEF Mutex

\* A request that comes and goes inside the mutex.
LEMMA InsideMutex ==
  ASSUME Typed, Mutex, NEW c \in Clients, Inside(c), UNCHANGED holder, TaskOf(c)' = TaskOf(c),
         \A b \in Clients \ {c} : at'[b] = at[b] /\ job'[b] = job[b]
  PROVE  Mutex'
  BY DEF Mutex, Inside, TaskOf

Alike(q, r) == q.routes = r.routes /\ q.hash = r.hash

\* The copies of a request: the row's settings, or those it is the first to change.
Keeps(c) ==
  at[c] \notin RowFree =>
    /\ IsUpdate(c) /\ job[c].next # NoRow => Alike(job[c].next, job[c].row)
    /\ row[TaskOf(c)] # NoRow => \/ Alike(job[c].row, row[TaskOf(c)])
                                 \/ OpOf(c) = "update" /\ Alike(job[c].was, row[TaskOf(c)])

Settled ==
  /\ \A c \in Clients : Keeps(c)
  /\ \A t \in Tasks : repaired[t] # NoRow => Alike(repaired[t], row[t])

\* The step that SettingsChangeOnlyByUpdate allows.
SettingsStep ==
  \A t \in Tasks :
    row[t] # NoRow /\ row'[t] # NoRow
      /\ (row'[t].routes # row[t].routes \/ row'[t].hash # row[t].hash)
    => \E c \in Clients : SetByUpdate(c, t)

\* What a request inside the mutex does is its own task's.
LEMMA WorkSettles ==
  ASSUME Typed, Mutex, Settled, NEW c \in Clients, Inside(c), UNCHANGED <<holder, process>>,
         TaskOf(c)' = TaskOf(c), \A b \in Clients \ {c} : at'[b] = at[b] /\ job'[b] = job[b],
         \A u \in Tasks : u # TaskOf(c) => row'[u] = row[u], Keeps(c)'
  PROVE  Mutex' /\ Settled'
<1>1. ASSUME NEW b \in Clients \ {c}
      PROVE  Keeps(b)'
  <2>1. CASE at[b] \in RowFree
    BY <2>1 DEF Keeps
  <2>2. CASE at[b] \notin RowFree
    <3>1. Inside(b) /\ TaskOf(b) # TaskOf(c) /\ TaskOf(b) \in Tasks
      BY <2>2, Alone, UnderWay DEF Inside, RowFree
    <3>. QED
      BY <3>1 DEF Settled, Keeps, TaskOf, OpOf, IsUpdate
  <2>. QED
    BY <2>1, <2>2
<1>2. \A t \in Tasks : repaired'[t] = NoRow
  BY UnderWay DEF Inside, Typed, BootAlone, process
<1>3. Mutex'
  BY InsideMutex
<1>. QED
  BY <1>1, <1>2, <1>3 DEF Settled

\* A step that makes no copy, and at most drops the row.
LEMMA MoveSettles ==
  ASSUME Typed, Mutex, Settled, NEW c \in Clients, Inside(c), UNCHANGED <<holder, process, job>>,
         NEW label, Go(c, label), label \notin RowFree => at[c] \notin RowFree,
         row' = row \/ row' = [row EXCEPT ![TaskOf(c)] = NoRow]
  PROVE  Mutex' /\ Settled' /\ SettingsStep
<1>1. TaskOf(c) \in Tasks
  BY UnderWay DEF Inside
<1>2. at'[c] = label /\ \A b \in Clients \ {c} : at'[b] = at[b]
  BY DEF Go, Typed
<1>3. \A u \in Tasks : row'[u] = row[u] \/ (u = TaskOf(c) /\ row'[u] = NoRow)
  BY <1>1 DEF Typed
<1>4. Keeps(c)'
  BY <1>1, <1>2, <1>3 DEF Settled, Keeps, TaskOf, OpOf, IsUpdate
<1>5. SettingsStep
  BY <1>3 DEF SettingsStep
<1>. QED
  BY <1>2, <1>3, <1>4, <1>5, WorkSettles DEF TaskOf

\* tasks.Update with the settings of the request's copy.
LEMMA WriteSettles ==
  ASSUME Typed, Mutex, Settled, NEW c \in Clients, NEW label, label \notin RowFree,
         NEW r \in Row, Alike(r, job[c].row), NEW next, NEW failed, Persist(c, label, r, next, failed)
  PROVE  Mutex' /\ Settled' /\ SettingsStep
<1>. DEFINE t == TaskOf(c)
<1>1. /\ at[c] = label /\ Inside(c) /\ UNCHANGED <<holder, process>>
      /\ job[c] \in Job /\ t \in Tasks
  BY UnderWay DEF Persist, Inside, RowFree
<1>2. CASE row' = row /\ UNCHANGED job
  BY <1>1, <1>2, MoveSettles DEF Persist
<1>3. CASE row' = [row EXCEPT ![t] = r] /\ (UNCHANGED job \/ SetRow(c, r))
  <2>1. PICK to : Go(c, to)
    BY DEF Persist
  <2>2. /\ job'[c].op = job[c].op /\ job'[c].task = job[c].task /\ job'[c].next = job[c].next
        /\ job'[c].row \in {job[c].row, r}
        /\ \A b \in Clients \ {c} : at'[b] = at[b] /\ job'[b] = job[b]
    BY <1>1, <1>3, <2>1 DEF SetRow, Job, Typed, Go
  <2>3. \A u \in Tasks : row'[u] = IF u = t THEN r ELSE row[u]
    BY <1>1, <1>3 DEF Typed
  <2>4. Keeps(c)'
    BY <1>1, <2>2, <2>3 DEF Settled, Keeps, Alike, TaskOf, OpOf, IsUpdate
  <2>5. SettingsStep
    BY <1>1, <2>3 DEF SettingsStep, SetByUpdate, Settled, Keeps, Alike, TaskOf, OpOf, IsUpdate
  <2>. QED
    BY <1>1, <2>2, <2>3, <2>4, <2>5, WorkSettles DEF TaskOf
<1>. QED
  BY <1>2, <1>3 DEF Persist

\* A new copy of the row, with the settings it had.
LEMMA CopySettles ==
  ASSUME Typed, Mutex, Settled, NEW c \in Clients, at[c] \notin RowFree,
         UNCHANGED <<holder, process, row>>, NEW label, Go(c, label),
         NEW q, SetRow(c, q), Alike(q, job[c].row)
  PROVE  Mutex' /\ Settled' /\ SettingsStep
<1>1. Inside(c) /\ job[c] \in Job
  BY UnderWay DEF Inside, RowFree
<1>2. /\ job'[c].op = job[c].op /\ job'[c].task = job[c].task /\ job'[c].next = job[c].next
      /\ job'[c].row = q /\ job'[c].was = job[c].was
      /\ \A b \in Clients \ {c} : at'[b] = at[b] /\ job'[b] = job[b]
  BY <1>1 DEF SetRow, Job, Typed, Go
<1>3. Keeps(c)'
  BY <1>2 DEF Settled, Keeps, Alike, TaskOf, OpOf, IsUpdate
<1>4. SettingsStep
  BY DEF SettingsStep
<1>. QED
  BY <1>1, <1>2, <1>3, <1>4, WorkSettles DEF TaskOf

\* The read an operation begins with.
LEMMA BeginSettles ==
  ASSUME Typed, Mutex, Settled, NEW c \in Clients, Reads(c, OpOf(c)), OnlyMoves,
         NEW label, Go(c, label), NEW r, NEW next, NEW recreate, Begin(c, r, next, recreate),
         Alike(r, row[TaskOf(c)]) \/ OpOf(c) = "update", next # NoRow => Alike(next, r)
  PROVE  Mutex' /\ Settled' /\ SettingsStep
<1>. DEFINE new == [job[c] EXCEPT !.row = r, !.was = row[TaskOf(c)],
                                  !.next = next, !.recreate = recreate]
<1>1. Inside(c) /\ job[c] \in Job /\ UNCHANGED <<holder, process, row>>
  BY UnderWay DEF Reads, Inside, OnlyMoves
<1>2. /\ new.op = job[c].op /\ new.task = job[c].task /\ new.row = r
      /\ new.was = row[TaskOf(c)] /\ new.next = next
  BY <1>1 DEF Job
<1>3. job' = [job EXCEPT ![c] = new]
  BY DEF Begin
<1>. HIDE DEF new
<1>4. job'[c] = new /\ \A b \in Clients \ {c} : at'[b] = at[b] /\ job'[b] = job[b]
  BY <1>3 DEF Typed, Go
<1>5. Keeps(c)'
  BY <1>1, <1>2, <1>4 DEF Keeps, Alike, TaskOf, OpOf, IsUpdate
<1>6. SettingsStep
  BY <1>1 DEF SettingsStep
<1>. QED
  BY <1>1, <1>2, <1>4, <1>5, <1>6, WorkSettles DEF TaskOf

LEMMA ReadsSettle ==
  ASSUME Typed, Mutex, Settled, NEW c \in Clients,
         BeginStart(c) \/ BeginStop(c) \/ BeginRestart(c) \/ BeginDelete(c)
  PROVE  Mutex' /\ Settled' /\ SettingsStep
<1>. DEFINE r == row[TaskOf(c)]
            q == [r EXCEPT !.status = "starting"]
<1>1. Reads(c, OpOf(c)) /\ OnlyMoves
  BY DEF Reads, BeginStart, BeginStop, BeginRestart, BeginDelete
<1>2. r \in Row
  BY <1>1, UnderWay DEF Reads, Typed
<1>3. Alike(q, r) /\ Alike(r, r)
  BY <1>2 DEF Row, Alike
<1>4. PICK label \in {"markStarting", "unregister", "stop", "pull", "clear"}, p \in {q, r} :
        Go(c, label) /\ Begin(c, p, NoRow, FALSE)
  BY DEF BeginStart, BeginStop, BeginRestart, BeginDelete
<1>. HIDE DEF q, r
<1>. QED
  BY <1>1, <1>3, <1>4, BeginSettles DEF r

LEMMA EditSettles ==
  ASSUME Typed, Mutex, Settled, NEW c \in Clients, Reads(c, OpOf(c)), OnlyMoves,
         NEW want, NEW routes, NEW hash, NEW recreate, EditTask(c, want, routes, hash, recreate),
         OpOf(c) # "update" => routes = row[TaskOf(c)].routes /\ hash = row[TaskOf(c)].hash
  PROVE  Mutex' /\ Settled' /\ SettingsStep
<1>. DEFINE r == row[TaskOf(c)]
            edited == [r EXCEPT !.routes = routes, !.hash = hash]
            wanted == WithSpec(edited, want)
<1>1. r \in Row
  BY UnderWay DEF Reads, Typed
<1>2. edited.routes = routes /\ edited.hash = hash
  BY <1>1 DEF Row
<1>3. Alike(wanted, edited)
  BY <1>1 DEF WithSpec, Row, Alike
<1>4. PICK label \in {"done", "save", "pull", "stop", "saveSpec"}, next \in {NoRow, wanted} :
        Begin(c, edited, next, recreate) /\ Go(c, label)
  <2>1. CASE Begin(c, edited, NoRow, recreate)
             /\ Go(c, IF edited = r THEN "done" ELSE "save")
    BY <2>1
  <2>2. CASE /\ Begin(c, edited, wanted, recreate)
             /\ Go(c, CASE recreate /\ want.image # r.spec.image -> "pull"
                        [] r.status = "running"                  -> "stop"
                        [] OTHER                                 -> "saveSpec")
    BY <2>2
  <2>. QED
    BY <2>1, <2>2 DEF EditTask
<1>. HIDE DEF edited, wanted
<1>. QED
  BY <1>2, <1>3, <1>4, BeginSettles DEF Alike

LEMMA RowsSettle ==
  ASSUME Typed, Mutex, Settled, NEW c \in Clients, BeginUpdate(c) \/ BeginDeploy(c) \/ Reserve(c)
  PROVE  Mutex' /\ Settled' /\ SettingsStep
<1>1. CASE BeginUpdate(c)
  BY <1>1, EditSettles DEF BeginUpdate, Reads
<1>2. CASE BeginDeploy(c)
  <2>1. Reads(c, OpOf(c)) /\ OnlyMoves
    BY <1>2 DEF BeginDeploy, Reads
  <2>2. PICK want : EditTask(c, want, row[TaskOf(c)].routes, row[TaskOf(c)].hash, TRUE)
    BY <1>2 DEF BeginDeploy
  <2>. QED
    BY <2>1, <2>2, EditSettles
<1>3. CASE Reserve(c)
  <2>1. PICK r, label :
          /\ row' = [row EXCEPT ![TaskOf(c)] = r] /\ Go(c, label)
          /\ SetRow(c, r) \/ (UNCHANGED job /\ label = "done")
    BY <1>3 DEF Reserve
  <2>2. /\ at[c] = "reserve" /\ Inside(c) /\ job[c] \in Job /\ TaskOf(c) \in Tasks
        /\ UNCHANGED <<holder, process>>
    BY <1>3, UnderWay DEF Reserve, Inside
  <2>3. row[TaskOf(c)] = NoRow
    BY <1>3, <2>2 DEF Reserve, NameTaken
  <2>4. /\ job'[c].op = job[c].op /\ job'[c].task = job[c].task /\ job'[c].next = job[c].next
        /\ SetRow(c, r) => job'[c].row = r
        /\ \A b \in Clients \ {c} : at'[b] = at[b] /\ job'[b] = job[b]
    BY <2>1, <2>2 DEF SetRow, Job, Typed, Go
  <2>5. \A u \in Tasks : row'[u] = IF u = TaskOf(c) THEN r ELSE row[u]
    BY <2>1, <2>2 DEF Typed
  <2>6. SettingsStep
    BY <2>3, <2>5 DEF SettingsStep
  <2>7. OpOf(c) = "create"
    BY <2>2, UnderWay DEF Inside, Assigned
  <2>8. Keeps(c)'
    <3>1. CASE SetRow(c, r)
      BY <2>2, <2>4, <2>5, <2>7, <3>1 DEF Keeps, Alike, TaskOf, OpOf, IsUpdate
    <3>2. CASE at'[c] = "done"
      BY <3>2 DEF Keeps, RowFree
    <3>. QED
      BY <2>1, <2>2, <3>1, <3>2 DEF Go, Typed
  <2>. QED
    BY <2>2, <2>4, <2>5, <2>6, <2>8, WorkSettles DEF TaskOf
<1>. QED
  BY <1>1, <1>2, <1>3

LEMMA PersistActionsSettle ==
  ASSUME Typed, Mutex, Settled, NEW c \in Clients,
         \/ PersistRunning(c) \/ FailTask(c) \/ PersistCreated(c) \/ MarkStarting(c)
         \/ PersistStopped(c) \/ MarkRestarting(c) \/ SaveMetadata(c) \/ SaveSpec(c)
         \/ SaveRecreated(c)
  PROVE  Mutex' /\ Settled' /\ SettingsStep
<1>. DEFINE r == job[c].row
<1>1. at[c] \notin RowFree /\ r \in Row /\ Assigned(c)
  BY UnderWay
  DEF RowFree, Assigned, Persist, PersistRunning, FailTask, PersistCreated, MarkStarting,
      PersistStopped, MarkRestarting, SaveMetadata, SaveSpec, SaveRecreated
<1>2. ASSUME NEW q \in {r, [r EXCEPT !.status = "error"], [r EXCEPT !.status = "starting"],
                        [r EXCEPT !.status = "stopped", !.addr = NoAddr]}
      PROVE  q \in Row /\ Alike(q, job[c].row)
  BY <1>1, <1>2 DEF Row, Statuses, Alike
<1>3. CASE SaveSpec(c)
  <2>1. job[c].next \in Row /\ Alike(job[c].next, job[c].row)
    BY <1>1, <1>3, TaskDataAssumption DEF SaveSpec, Persist, Assigned, Settled, Keeps
  <2>. QED
    BY <1>3, <2>1, WriteSettles DEF SaveSpec, RowFree
<1>. HIDE DEF r
<1>4. CASE PersistRunning(c)
  BY <1>2, <1>4, WriteSettles DEF PersistRunning, RowFree, r
<1>5. CASE FailTask(c)
  BY <1>2, <1>5, WriteSettles DEF FailTask, RowFree, r
<1>6. CASE PersistCreated(c)
  BY <1>2, <1>6, WriteSettles DEF PersistCreated, RowFree, r
<1>7. CASE MarkStarting(c)
  BY <1>2, <1>7, WriteSettles DEF MarkStarting, RowFree, r
<1>8. CASE PersistStopped(c)
  BY <1>2, <1>8, WriteSettles DEF PersistStopped, RowFree, r
<1>9. CASE MarkRestarting(c)
  BY <1>2, <1>9, WriteSettles DEF MarkRestarting, RowFree, r
<1>10. CASE SaveMetadata(c)
  BY <1>2, <1>10, WriteSettles DEF SaveMetadata, RowFree, r
<1>11. CASE SaveRecreated(c)
  BY <1>2, <1>11, WriteSettles DEF SaveRecreated, RowFree, r
<1>. QED
  BY <1>3, <1>4, <1>5, <1>6, <1>7, <1>8, <1>9, <1>10, <1>11

LEMMA MovesSettle ==
  ASSUME Typed, Mutex, Settled, NEW c \in Clients,
         \/ Pull(c) \/ StopContainer(c) \/ StartContainer(c) \/ UndoCreate(c)
         \/ InspectForDelete(c) \/ RemoveContainer(c)
         \/ Unregister(c) \/ Register(c) \/ Clear(c) \/ Publish(c)
         \/ Refuse(c) \/ DeployAgain(c) \/ DropRow(c)
  PROVE  Mutex' /\ Settled' /\ SettingsStep
<1>1. /\ Inside(c) /\ UNCHANGED <<holder, process, job>>
      /\ row' = row \/ row' = [row EXCEPT ![TaskOf(c)] = NoRow]
  BY DEF Inside, Pull, StopContainer, StartContainer, UndoCreate, InspectForDelete,
         RemoveContainer, Unregister, Register, Clear, Publish, Refuse, DeployAgain, Reads, DropRow,
         OnlyMoves, OnlyDocker, OnlyRegistry, process
<1>2. PICK label : Go(c, label) /\ (label \notin RowFree => at[c] \notin RowFree)
  <2>1. CASE Refuse(c) \/ DeployAgain(c)
    BY <2>1 DEF Refuse, DeployAgain, RowFree
  <2>2. CASE at[c] \notin RowFree
    BY <2>2, Zenon DEF Pull, StopContainer, StartContainer, UndoCreate, InspectForDelete,
         RemoveContainer, Unregister, Register, Clear, Publish, Refuse, DeployAgain, DropRow
  <2>. QED
    BY <2>1, <2>2
    DEF Pull, StopContainer, StartContainer, UndoCreate, InspectForDelete, RemoveContainer,
        Unregister, Register, Clear, Publish, DropRow, RowFree
<1>. QED
  BY <1>1, <1>2, MoveSettles

LEMMA ContainerChangesSettle ==
  ASSUME Typed, Mutex, Settled, NEW c \in Clients,
         RecreateContainer(c) \/ CreateContainer(c) \/ AwaitReady(c)
  PROVE  Mutex' /\ Settled' /\ SettingsStep
<1>. DEFINE r == job[c].row
<1>1. /\ at[c] \notin RowFree /\ Inside(c) /\ r \in Row
      /\ UNCHANGED <<holder, process, row>>
  BY UnderWay
  DEF RowFree, Inside, Assigned, RecreateContainer, CreateContainer, AwaitReady, OnlyDocker,
      OnlyMoves, process
<1>2. PICK label : Go(c, label)
  BY Zenon DEF RecreateContainer, CreateContainer, AwaitReady
<1>3. UNCHANGED job \/ \E q : SetRow(c, q) /\ Alike(q, r)
  <2>1. CASE RecreateContainer(c)
    <3>1. UNCHANGED job \/ \E k \in Cids : SetRow(c, [r EXCEPT !.cid = k, !.pending = FALSE])
      BY <2>1, Zenon DEF RecreateContainer
    <3>2. \A k : Alike([r EXCEPT !.cid = k, !.pending = FALSE], r)
      BY <1>1 DEF Row, Alike
    <3>. QED
      BY <3>1, <3>2, Zenon
  <2>2. CASE CreateContainer(c)
    <3>1. UNCHANGED job \/ \E k \in Cids : SetRow(c, [r EXCEPT !.cid = k, !.status = "starting"])
      BY <2>2, Zenon DEF CreateContainer
    <3>2. \A k : Alike([r EXCEPT !.cid = k, !.status = "starting"], r)
      BY <1>1 DEF Row, Alike
    <3>. QED
      BY <3>1, <3>2, Zenon
  <2>3. CASE AwaitReady(c)
    <3>1. UNCHANGED job \/ \E a : SetRow(c, [r EXCEPT !.status = "running", !.pending = FALSE, !.addr = a])
      BY <2>3, Zenon DEF AwaitReady
    <3>2. \A a : Alike([r EXCEPT !.status = "running", !.pending = FALSE, !.addr = a], r)
      BY <1>1 DEF Row, Alike
    <3>. QED
      BY <3>1, <3>2, Zenon
  <2>. QED
    BY <2>1, <2>2, <2>3
<1>. QED
  BY <1>1, <1>2, <1>3, MoveSettles, CopySettles

\* A request comes, enters the mutex, and leaves it.
LEMMA AdmissionSettles ==
  ASSUME Typed, Mutex, Settled, NEW c \in Clients, Request(c) \/ Enter(c) \/ Unlock(c)
  PROVE  Mutex' /\ Settled' /\ SettingsStep
<1>1. /\ UNCHANGED <<row, process>> /\ \A b \in Clients \ {c} : at'[b] = at[b] /\ job'[b] = job[b]
      /\ at'[c] \in RowFree
  BY DEF Request, Enter, Unlock, OnlyMoves, process, Go, Typed, RowFree
<1>2. SettingsStep
  BY <1>1 DEF SettingsStep
<1>3. Settled'
  BY <1>1 DEF Settled, Keeps, TaskOf, OpOf, IsUpdate, process
<1>4. Mutex'
  <2>1. ASSUME NEW b \in Clients \ {c}, Inside(b)
        PROVE  holder'[TaskOf(b)] = holder[TaskOf(b)]
    <3>1. TaskOf(b) \in Tasks /\ holder[TaskOf(b)] = {b}
      BY <2>1, UnderWay DEF Inside, Mutex
    <3>2. CASE Request(c)
      BY <3>2 DEF Request, OnlyMoves
    <3>3. CASE Enter(c)
      BY <3>1, <3>3 DEF Enter, Typed
    <3>4. CASE Unlock(c)
      BY <2>1, <3>1, <3>4, Alone DEF Unlock, Typed, Inside
    <3>. QED
      BY <3>2, <3>3, <3>4
  <2>2. Inside(c)' => holder'[TaskOf(c)'] = {c}
    <3>1. CASE Enter(c)
      BY <3>1, UnderWay DEF Enter, Typed, TaskOf
    <3>2. CASE ~Enter(c)
      BY <3>2 DEF Request, Unlock, Inside, Go, Typed
    <3>. QED
      BY <3>1, <3>2
  <2>. QED
    BY <1>1, <2>1, <2>2 DEF Mutex, Inside, TaskOf
<1>. QED
  BY <1>2, <1>3, <1>4

\* Reconcile and a crash; Reconcile saves the settings that it inspected.
LEMMA ProcessSettles ==
  ASSUME Typed, Mutex, Settled,
         \/ Crash \/ Startup
         \/ \E k \in Cids : Exit(k) \/ Revive(k) \/ Interfere(k)
  PROVE  Mutex' /\ Settled' /\ SettingsStep
<1>1. CASE Crash
  BY <1>1 DEF Crash, Typed, Mutex, Inside, Settled, Keeps, RowFree, SettingsStep
<1>2. CASE Boot \/ Listen \/ \E k \in Cids : Exit(k) \/ Revive(k) \/ Interfere(k)
  <2>1. UNCHANGED <<row, holder, at, job, repaired>>
    BY <1>2 DEF Boot, Listen, Exit, Revive, Interfere, Others, process
  <2>. QED
    BY <2>1 DEF Mutex, Inside, Settled, Keeps, TaskOf, OpOf, IsUpdate, SettingsStep
<1>3. ASSUME NEW t \in Tasks, ReconcileTask(t) \/ ReconcileSave(t)
      PROVE  Mutex' /\ Settled' /\ SettingsStep
  <2>1. /\ \A c \in Clients : at[c] = "idle"
        /\ row[t] \in Row /\ UNCHANGED <<holder, at, job>>
    BY <1>3 DEF ReconcileTask, ReconcileSave, Saving, Typed, BootAlone
  <2>2. Mutex' /\ \A c \in Clients : Keeps(c)'
    BY <2>1 DEF Mutex, Inside, Keeps, RowFree
  <2>3. CASE ReconcileTask(t)
    <3>1. PICK status, addr :
            repaired' = [repaired EXCEPT ![t] = [row[t] EXCEPT !.status = status, !.addr = addr]]
      BY <2>3, Zenon DEF ReconcileTask
    <3>2. Alike([row[t] EXCEPT !.status = status, !.addr = addr], row[t])
      BY <2>1 DEF Row, Alike
    <3>3. row' = row
      BY <2>3 DEF ReconcileTask
    <3>. QED
      BY <2>2, <3>1, <3>2, <3>3 DEF Typed, Settled, SettingsStep
  <2>4. CASE ReconcileSave(t)
    <3>1. /\ repaired[t] # NoRow /\ Alike(repaired[t], row[t])
          /\ row' = [row EXCEPT ![t] = repaired[t]] \/ row' = row
          /\ repaired' = [repaired EXCEPT ![t] = NoRow]
      BY <2>4 DEF ReconcileSave, Saving, Settled
    <3>2. SettingsStep
      BY <3>1 DEF SettingsStep, Typed, Alike
    <3>3. \A u \in Tasks : repaired'[u] # NoRow => Alike(repaired'[u], row'[u])
      BY <3>1 DEF Typed, Settled
    <3>. QED
      BY <2>2, <3>2, <3>3 DEF Settled
  <2>. QED
    BY <1>3, <2>3, <2>4
<1>. QED
  BY <1>1, <1>2, <1>3 DEF Startup

LEMMA NextSettles ==
  ASSUME Typed, Mutex, Settled, [Next]_vars
  PROVE  Mutex' /\ Settled' /\ [SettingsStep]_vars
<1>1. ASSUME NEW c \in Clients, Step(c)
      PROVE  Mutex' /\ Settled' /\ SettingsStep
  BY <1>1, AdmissionSettles, PersistActionsSettle, MovesSettle, ContainerChangesSettle, ReadsSettle,
     RowsSettle DEF Step
<1>2. CASE UNCHANGED vars
  BY <1>2
  DEF vars, process, Mutex, Inside, Settled, Keeps, TaskOf, OpOf, IsUpdate
<1>. QED
  BY <1>1, <1>2, AdmissionSettles, ProcessSettles DEF Next

\* Every operation writes the whole row from the copy it read, and yet none reverts
\* the routes or the password that an Update saved beside it, nor does another
\* Update (lockTask): whatever calls fail and whenever Boreas crashes.
THEOREM SettingsKept == Spec => SettingsChangeOnlyByUpdate
<1>1. Init => Typed /\ Mutex /\ Settled
  BY InitTyped DEF Init, Mutex, Inside, Settled, Keeps, RowFree
<1>2. Typed /\ Mutex /\ Settled /\ [Next]_vars => (Typed /\ Mutex /\ Settled)'
  BY NextTyped, NextSettles
<1>3. Typed /\ Mutex /\ Settled /\ [Next]_vars
        => [\A t \in Tasks :
              row[t] # NoRow /\ row'[t] # NoRow
                /\ (row'[t].routes # row[t].routes \/ row'[t].hash # row[t].hash)
              => \E c \in Clients : SetByUpdate(c, t)]_vars
  BY NextSettles DEF SettingsStep
<1>. QED
  BY <1>1, <1>2, <1>3, PTL DEF Spec, SettingsChangeOnlyByUpdate

(***************************************************************************)
(* A request stops and removes the containers of its own task only: its    *)
(* copy of the row names one that Docker gave to the task (Tracks), and    *)
(* a name is reclaimed from no other task (MayReclaim).                    *)
(***************************************************************************)
\* The step that ForeignContainersUntouched allows.
ContainersStep ==
  \A k \in Cids :
    Exists(docker, k) /\ docker'[k] # docker[k] =>
      \/ \E c \in Clients : c \in holder[docker[k].task] /\ at'[c] # at[c]
      \/ at' = at

\* Of the containers d has, only task t's are others in e.
Spares(d, e, t) == \A k \in Cids : Exists(d, k) /\ e[k] # d[k] => d[k].task = t

LEMMA CallsSpare ==
  ASSUME NEW d \in DockerStates, NEW t, NEW k, Exists(d, k) => d[k].task = t
  PROVE  /\ Spares(d, Stopped(d, k), t) /\ Spares(d, Gone(d, k), t)
         /\ \A e \in StartOutcomes(d, k) : Spares(d, e, t)
<1>1. ASSUME NEW v
      PROVE  Exists(d, k) => Spares(d, [d EXCEPT ![k] = v], t)
  BY DEF Spares, DockerStates
<1>2. Spares(d, d, t)
  BY DEF Spares
<1>3. \A e \in StartOutcomes(d, k) : Exists(d, k) /\ (e = d \/ \E v : e = [d EXCEPT ![k] = v])
  BY DEF StartOutcomes, Started
<1>. QED
  BY <1>1, <1>2, <1>3 DEF Stopped, Gone

LEMMA ReclaimSpares ==
  ASSUME NEW d \in DockerStates, NEW t, MayReclaim(d, t)
  PROVE  /\ Spares(d, Reclaimed(d, t), t)
         /\ \A k \in Cids : ~Exists(d, k) => \A s : Spares(d, Created(d, k, t, s), t)
<1>1. \A j \in Cids : Reclaimed(d, t)[j] # d[j] => d[j].task = t
  BY DEF Reclaimed, MayReclaim
<1>2. Spares(d, Reclaimed(d, t), t)
  BY <1>1 DEF Spares
<1>3. ASSUME NEW k \in Cids, ~Exists(d, k), NEW s, NEW j \in Cids, Exists(d, j),
             Created(d, k, t, s)[j] # d[j]
      PROVE  d[j].task = t
  <2>1. j # k /\ Created(d, k, t, s)[j] = Reclaimed(d, t)[j]
    BY <1>3 DEF Created, Reclaimed
  <2>. QED
    BY <1>1, <1>3, <2>1
<1>. QED
  BY <1>2, <1>3 DEF Spares

LEMMA FailureSpares ==
  ASSUME NEW d \in DockerStates, NEW t, NEW e \in CreateFailures(d, t)
  PROVE  Spares(d, e, t)
<1>1. Spares(d, d, t)
  BY DEF Spares
<1>. QED
  BY <1>1, ReclaimSpares DEF CreateFailures

\* A call after the old container is gone.
LEMMA GoneSpares ==
  ASSUME NEW d \in DockerStates, NEW t, NEW old, Exists(d, old) => d[old].task = t,
         NEW e, Spares(Gone(d, old), e, t)
  PROVE  Spares(d, e, t)
<1>1. SUFFICES ASSUME NEW k \in Cids, Exists(d, k), e[k] # d[k]
               PROVE  d[k].task = t
  BY DEF Spares
<1>2. CASE k = old
  BY <1>1, <1>2
<1>3. CASE k # old
  <2>1. Gone(d, old)[k] = d[k] /\ Exists(Gone(d, old), k)
    BY <1>1, <1>3 DEF Gone, Exists, DockerStates
  <2>. QED
    BY <1>1, <2>1 DEF Spares
<1>. QED
  BY <1>2, <1>3

LEMMA OwnContainers ==
  ASSUME Typed, Mutex, NEW c \in Clients, Inside(c), Spares(docker, docker', TaskOf(c)), at'[c] # at[c]
  PROVE  ContainersStep
  BY DEF Mutex, Spares, ContainersStep

\* The container that a request's copy names is its task's.
LEMMA OwnContainer ==
  ASSUME Typed, Tracking, NEW c \in Clients, at[c] \notin RowFree
  PROVE  Exists(docker, job[c].row.cid) => docker[job[c].row.cid].task = TaskOf(c)
<1>1. job[c].row \in Row /\ job[c].row # NoRow /\ Tracks(docker, job[c].row, TaskOf(c))
  BY UnderWay, TaskDataAssumption DEF RowFree, Assigned, Tracking, CopiesTrack
<1>. QED
  BY <1>1, TaskDataAssumption DEF Tracks, Exists

LEMMA DockerCallsSpare ==
  ASSUME Typed, Mutex, Tracking, NEW c \in Clients,
         \/ StopContainer(c) \/ StartContainer(c) \/ UndoCreate(c) \/ RemoveContainer(c)
         \/ RecreateContainer(c) \/ CreateContainer(c)
  PROVE  ContainersStep
<1>. DEFINE t == TaskOf(c)
            old == job[c].row.cid
            gone == Gone(docker, old)
            fresh == {k \in Cids : docker[k] = Unused}
<1>1. Inside(c) /\ at[c] \notin RowFree
  BY DEF Inside, RowFree, StopContainer, StartContainer, UndoCreate, RemoveContainer,
         RecreateContainer, CreateContainer
<1>2. at'[c] # at[c]
  BY DEF Go, Typed, StopContainer, StartContainer, UndoCreate, RemoveContainer, RecreateContainer,
         CreateContainer, AfterCreation
<1>3. /\ docker \in DockerStates /\ gone \in DockerStates
      /\ Exists(docker, old) => docker[old].task = t
  BY <1>1, OwnContainer, GoneEvolves DEF Typed
<1>4. /\ Spares(docker, docker, t) /\ Spares(docker, Stopped(docker, old), t)
      /\ Spares(docker, gone, t) /\ \A e \in StartOutcomes(docker, old) : Spares(docker, e, t)
  <2>1. Spares(docker, docker, t)
    BY DEF Spares
  <2>. QED
    BY <1>3, <2>1, CallsSpare
<1>5. Spares(docker, docker', t)
  <2>1. CASE StopContainer(c) \/ StartContainer(c) \/ UndoCreate(c) \/ RemoveContainer(c)
    BY <1>4, <2>1 DEF StopContainer, StartContainer, UndoCreate, RemoveContainer
  <2>2. CASE RecreateContainer(c)
    <3>1. \A k \in fresh : ~Exists(gone, k)
      BY <1>3, GoneKeepsFresh DEF Exists
    <3>2. \/ docker' \in {docker, Stopped(docker, old), gone}
          \/ docker' \in CreateFailures(gone, t)
          \/ MayReclaim(gone, t) /\ \E k \in fresh : docker' = Created(gone, k, t, job[c].row.spec)
      BY <2>2, Zenon DEF RecreateContainer
    <3>. HIDE DEF gone
    <3>3. docker' \in {docker, Stopped(docker, old), gone} \/ Spares(gone, docker', t)
      BY <1>3, <3>1, <3>2, FailureSpares, ReclaimSpares
    <3>. QED
      BY <1>3, <1>4, <3>3, GoneSpares DEF gone
  <2>3. CASE CreateContainer(c)
    <3>1. \A k \in fresh : ~Exists(docker, k)
      BY DEF Exists
    <3>2. \/ docker' = docker \/ docker' \in CreateFailures(docker, t)
          \/ MayReclaim(docker, t)
               /\ \E k \in fresh : docker' = Created(docker, k, t, job[c].row.spec)
      BY <2>3, Zenon DEF CreateContainer
    <3>. QED
      BY <1>3, <1>4, <3>1, <3>2, FailureSpares, ReclaimSpares
  <2>. QED
    BY <2>1, <2>2, <2>3
<1>. QED
  BY <1>1, <1>2, <1>5, OwnContainers

LEMMA NextSpares ==
  ASSUME Typed, Mutex, Tracking, [Next]_vars
  PROVE  [ContainersStep]_vars
<1>1. ASSUME UNCHANGED docker \/ UNCHANGED at
      PROVE  ContainersStep
  BY <1>1 DEF ContainersStep
<1>2. ASSUME NEW c \in Clients, Request(c) \/ Enter(c)
      PROVE  ContainersStep
  BY <1>1, <1>2 DEF Request, Enter, OnlyMoves
<1>3. ASSUME NEW c \in Clients, Step(c)
      PROVE  ContainersStep
  <2>1. \/ UNCHANGED docker
        \/ StopContainer(c) \/ StartContainer(c) \/ UndoCreate(c) \/ RemoveContainer(c)
        \/ RecreateContainer(c) \/ CreateContainer(c)
    BY <1>3 DEF Step, Unlock, Refuse, Pull, Unregister, AwaitReady, PersistRunning, Register,
         FailTask, Reserve, PersistCreated, BeginStart, MarkStarting, BeginStop, PersistStopped,
         BeginRestart, MarkRestarting, BeginDelete, Clear, InspectForDelete, DropRow, BeginUpdate,
         DeployAgain, BeginDeploy, SaveMetadata, SaveSpec, SaveRecreated, Publish, Persist,
         OnlyMoves, OnlyRegistry
  <2>. QED
    BY <1>1, <2>1, DockerCallsSpare
<1>4. ASSUME \/ Startup \/ Crash \/ \E k \in Cids : Exit(k) \/ Revive(k) \/ Interfere(k)
      PROVE  ContainersStep
  BY <1>1, <1>4 DEF Startup, Boot, Listen, ReconcileTask, ReconcileSave, Crash, Exit, Revive,
                    Interfere, Others
<1>. QED
  BY <1>2, <1>3, <1>4 DEF Next

\* Boreas stops or removes a container only in a step of a request that holds the
\* mutex of the task in the container's labels (removeSupersededContainer, and the
\* ids that rows name), whichever tasks' names spell the same Docker name.
THEOREM ForeignSpared == Spec => ForeignContainersUntouched
<1>1. Init => Typed /\ Tracking /\ Mutex /\ Settled
  BY InitTyped, InitTracking DEF Init, Mutex, Inside, Settled, Keeps, RowFree
<1>2. Typed /\ Tracking /\ Mutex /\ Settled /\ [Next]_vars => (Typed /\ Tracking /\ Mutex /\ Settled)'
  BY NextTyped, NextTracking, NextSettles
<1>3. Typed /\ Tracking /\ Mutex /\ [Next]_vars
        => [\A k \in Cids :
              Exists(docker, k) /\ docker'[k] # docker[k] =>
                \/ \E c \in Clients : c \in holder[docker[k].task] /\ at'[c] # at[c]
                \/ at' = at]_vars
  BY NextSpares DEF ContainersStep
<1>. QED
  BY <1>1, <1>2, <1>3, PTL DEF Spec, ForeignContainersUntouched

(***************************************************************************)
(* The proxy serves names that have a task.  Tasks whose names fold to one *)
(* site exclude each other as rows, not by their mutexes: of all of them   *)
(* one has a row, and a request that is past its read works on that one.   *)
(***************************************************************************)
\* Delete has taken the site off the proxy, and the row is still there.
Withdrawn(c) == OpOf(c) = "delete" /\ at[c] \in {"inspect", "stop", "remove", "drop"}

Owned ==
  /\ \A c \in Clients : at[c] \notin RowFree => row[TaskOf(c)] # NoRow
  /\ \A t \in Tasks, u \in Tasks :
       row[t] # NoRow /\ row[u] # NoRow /\ SiteOf[t] = SiteOf[u] => t = u
  /\ \A c \in Clients : Withdrawn(c) => site[SiteOf[TaskOf(c)]] = EmptySite
  /\ SitesHaveRows

\* A site that is withdrawn stays so: no other request has the row it would need.
LEMMA OneAtSite ==
  ASSUME Typed, Mutex, Owned, NEW b \in Clients, NEW c \in Clients,
         at[b] \notin RowFree, at[c] \notin RowFree, SiteOf[TaskOf(b)] = SiteOf[TaskOf(c)]
  PROVE  b = c
<1>1. Inside(b) /\ Inside(c) /\ TaskOf(b) \in Tasks /\ TaskOf(c) \in Tasks
  BY UnderWay DEF Inside, RowFree
<1>. QED
  BY <1>1, Alone DEF Owned

\* A step inside the mutex that adds no row and drops none.
LEMMA WorkOwns ==
  ASSUME Typed, Mutex, Owned, NEW c \in Clients, Inside(c), TaskOf(c)' = TaskOf(c),
         \A b \in Clients \ {c} : at'[b] = at[b] /\ job'[b] = job[b],
         \A t \in Tasks : (row'[t] # NoRow) <=> (row[t] # NoRow),
         at'[c] \notin RowFree => row[TaskOf(c)] # NoRow,
         \/ site' = site
         \/ /\ at[c] \notin RowFree
            /\ \A s \in Sites \ {SiteOf[TaskOf(c)]} : site'[s] = site[s],
         Withdrawn(c)' => site'[SiteOf[TaskOf(c)]] = EmptySite
  PROVE  Owned'
<1>1. TaskOf(c) \in Tasks /\ SiteOf \in [Tasks -> Sites]
  BY UnderWay, RegistryAssumption DEF Inside
<1>2. ASSUME NEW b \in Clients \ {c}, at[b] \notin RowFree
      PROVE  /\ TaskOf(b) \in Tasks /\ row'[TaskOf(b)] # NoRow
             /\ Withdrawn(b) => site'[SiteOf[TaskOf(b)]] = EmptySite
  <2>1. TaskOf(b) \in Tasks /\ row[TaskOf(b)] # NoRow
    BY <1>2, UnderWay DEF RowFree, Owned
  <2>2. Withdrawn(b) => site'[SiteOf[TaskOf(b)]] = site[SiteOf[TaskOf(b)]]
    BY <1>1, <1>2, <2>1, OneAtSite
  <2>. QED
    BY <2>1, <2>2 DEF Owned
<1>3. \A b \in Clients : at'[b] \notin RowFree => row'[TaskOf(b)'] # NoRow
  BY <1>1, <1>2 DEF TaskOf
<1>4. \A b \in Clients : Withdrawn(b)' => site'[SiteOf[TaskOf(b)']] = EmptySite
  BY <1>2 DEF Withdrawn, OpOf, TaskOf, RowFree
<1>5. SitesHaveRows'
  BY <1>1 DEF Owned, SitesHaveRows
<1>. QED
  BY <1>3, <1>4, <1>5 DEF Owned

\* The calls that write the registry.
LEMMA RegistryOwns ==
  ASSUME Typed, Mutex, Owned, NEW c \in Clients,
         Unregister(c) \/ Register(c) \/ Clear(c) \/ Publish(c)
  PROVE  Owned'
<1>1. /\ at[c] \notin RowFree /\ Inside(c) /\ OnlyRegistry
      /\ job[c] \in Job /\ Assigned(c) /\ TaskOf(c) \in Tasks
  BY UnderWay DEF Unregister, Register, Clear, Publish, RowFree, Inside
<1>2. SiteOf \in [Tasks -> Sites]
  BY RegistryAssumption
<1>3. \A s \in Sites \ {SiteOf[TaskOf(c)]} : site'[s] = site[s]
  BY <1>1, <1>2
  DEF Unregister, Register, Clear, Publish, Unregistered, Registered, WithRoutes, WithLock, Typed
<1>4. Withdrawn(c)' => site'[SiteOf[TaskOf(c)]] = EmptySite
  <2>1. CASE Clear(c)
    BY <1>1, <1>2, <2>1 DEF Clear, Typed
  <2>2. CASE Unregister(c) \/ Register(c) \/ Publish(c)
    BY <1>1, <2>2
    DEF Unregister, Register, Publish, OnlyRegistry, Go, Typed, Withdrawn, OpOf, Assigned, IsUpdate,
        Returned, RowFree
  <2>. QED
    BY <2>1, <2>2
<1>5. \A b \in Clients \ {c} : at'[b] = at[b] /\ job'[b] = job[b]
  BY <1>1 DEF Unregister, Register, Clear, Publish, OnlyRegistry, Go, Typed
<1>. QED
  BY <1>1, <1>3, <1>4, <1>5, WorkOwns DEF OnlyRegistry, TaskOf, Owned

\* A step that leaves the registry alone, and starts no withdrawal of its own.
LEMMA QuietOwns ==
  ASSUME Typed, Mutex, Owned, NEW c \in Clients, Inside(c), UNCHANGED site,
         job'[c].task = job[c].task /\ job'[c].op = job[c].op,
         \A b \in Clients \ {c} : job'[b] = job[b],
         \A t \in Tasks : (row'[t] # NoRow) <=> (row[t] # NoRow),
         NEW label, Go(c, label), label \notin RowFree => row[TaskOf(c)] # NoRow,
         OpOf(c) = "delete" /\ label \in {"inspect", "stop", "remove", "drop"} => Withdrawn(c)
  PROVE  Owned'
<1>1. at'[c] = label /\ \A b \in Clients \ {c} : at'[b] = at[b]
  BY DEF Go, Typed
<1>2. Withdrawn(c)' => Withdrawn(c)
  BY <1>1 DEF Withdrawn, OpOf
<1>. QED
  BY <1>1, <1>2, WorkOwns DEF TaskOf, Owned

\* tasks.Update.
LEMMA WriteOwns ==
  ASSUME Typed, Mutex, Owned, NEW c \in Clients, NEW label, label \notin RowFree,
         NEW r \in Row, NEW next, NEW failed, Persist(c, label, r, next, failed),
         {next, failed} \subseteq {"register", "done", "publish", "undo", "start", "recreate"}
  PROVE  Owned'
<1>1. /\ Inside(c) /\ job[c] \in Job /\ TaskOf(c) \in Tasks /\ row[TaskOf(c)] # NoRow
      /\ r # NoRow /\ site' = site
  BY UnderWay, TaskDataAssumption DEF Persist, Inside, RowFree, Owned
<1>2. PICK to \in {next, failed} : Go(c, to)
  BY DEF Persist
<1>3. /\ job'[c].task = job[c].task /\ job'[c].op = job[c].op
      /\ \A b \in Clients \ {c} : job'[b] = job[b]
  BY <1>1 DEF Persist, SetRow, Typed, Job
<1>4. \A t \in Tasks : (row'[t] # NoRow) <=> (row[t] # NoRow)
  BY <1>1 DEF Persist, Typed
<1>. QED
  BY <1>1, <1>2, <1>3, <1>4, QuietOwns

LEMMA PersistActionsOwn ==
  ASSUME Typed, Mutex, Owned, NEW c \in Clients,
         \/ PersistRunning(c) \/ FailTask(c) \/ PersistCreated(c) \/ MarkStarting(c)
         \/ PersistStopped(c) \/ MarkRestarting(c) \/ SaveMetadata(c) \/ SaveSpec(c)
         \/ SaveRecreated(c)
  PROVE  Owned'
<1>. DEFINE r == job[c].row
<1>1. at[c] \notin RowFree /\ r \in Row
  BY UnderWay
  DEF RowFree, Assigned, Persist, PersistRunning, FailTask, PersistCreated, MarkStarting,
      PersistStopped, MarkRestarting, SaveMetadata, SaveSpec, SaveRecreated
<1>2. /\ [r EXCEPT !.status = "error"] \in Row
      /\ [r EXCEPT !.status = "starting"] \in Row
      /\ [r EXCEPT !.status = "stopped", !.addr = NoAddr] \in Row
  BY <1>1 DEF Row, Statuses
<1>3. Returned(c) \in {"publish", "done"}
  BY DEF Returned
<1>. HIDE DEF r
<1>4. CASE PersistRunning(c)
  BY <1>1, <1>4, WriteOwns DEF PersistRunning, RowFree, r
<1>5. CASE FailTask(c)
  BY <1>2, <1>3, <1>5, WriteOwns DEF FailTask, RowFree, r
<1>6. CASE PersistCreated(c)
  BY <1>1, <1>6, WriteOwns DEF PersistCreated, RowFree, r
<1>7. CASE MarkStarting(c)
  BY <1>2, <1>1, <1>7, WriteOwns DEF MarkStarting, RowFree, r
<1>8. CASE PersistStopped(c)
  BY <1>2, <1>8, WriteOwns DEF PersistStopped, RowFree, r
<1>9. CASE MarkRestarting(c)
  BY <1>2, <1>9, WriteOwns DEF MarkRestarting, RowFree, r
<1>10. CASE SaveMetadata(c)
  BY <1>1, <1>3, <1>10, WriteOwns DEF SaveMetadata, RowFree, r
<1>11. CASE SaveSpec(c)
  <2>1. job[c].next \in Row
    BY <1>11, UnderWay DEF SaveSpec, Persist, Assigned
  <2>. QED
    BY <1>3, <1>11, <2>1, WriteOwns DEF SaveSpec, RowFree
<1>12. CASE SaveRecreated(c)
  BY <1>1, <1>3, <1>12, WriteOwns DEF SaveRecreated, RowFree, r
<1>. QED
  BY <1>4, <1>5, <1>6, <1>7, <1>8, <1>9, <1>10, <1>11, <1>12

\* Steps that leave the table and the registry alone.
LEMMA MovesOwn ==
  ASSUME Typed, Mutex, Owned, NEW c \in Clients,
         \/ Pull(c) \/ StopContainer(c) \/ StartContainer(c) \/ UndoCreate(c)
         \/ InspectForDelete(c) \/ RemoveContainer(c) \/ Refuse(c) \/ DeployAgain(c)
  PROVE  Owned'
<1>1. Inside(c) /\ UNCHANGED <<row, site, job>>
  BY DEF Inside, Pull, StopContainer, StartContainer, UndoCreate, InspectForDelete,
         RemoveContainer, Refuse, DeployAgain, Reads, OnlyMoves, OnlyDocker
<1>2. Assigned(c)
  BY <1>1, UnderWay DEF Inside
<1>3. CASE Refuse(c) \/ DeployAgain(c)
  BY <1>1, <1>3, QuietOwns DEF Refuse, DeployAgain, RowFree
<1>4. CASE at[c] \notin RowFree
  <2>1. row[TaskOf(c)] # NoRow
    BY <1>4 DEF Owned
  <2>2. CASE Pull(c)
    <3>1. OpOf(c) # "delete"
      BY <1>2, <2>2 DEF Pull, Assigned
    <3>2. PICK label : Go(c, label)
      BY <2>2 DEF Pull
    <3>. QED
      BY <1>1, <2>1, <3>1, <3>2, QuietOwns
  <2>3. CASE StartContainer(c) \/ UndoCreate(c)
    <3>1. PICK label \in {"ready", "fail", "done"} : Go(c, label)
      BY <2>3 DEF StartContainer, UndoCreate
    <3>. QED
      BY <1>1, <2>1, <3>1, QuietOwns
  <2>4. CASE StopContainer(c) \/ InspectForDelete(c) \/ RemoveContainer(c)
    <3>1. OpOf(c) = "delete" => Withdrawn(c)
      BY <2>4 DEF StopContainer, InspectForDelete, RemoveContainer, Withdrawn
    <3>2. PICK label : Go(c, label)
      BY <2>4, Zenon DEF StopContainer, InspectForDelete, RemoveContainer
    <3>. QED
      BY <1>1, <2>1, <3>1, <3>2, QuietOwns
  <2>. QED
    BY <1>3, <1>4, <2>2, <2>3, <2>4
<1>. QED
  BY <1>3, <1>4
  DEF Pull, StopContainer, StartContainer, UndoCreate, InspectForDelete, RemoveContainer, RowFree

LEMMA ContainerChangesOwn ==
  ASSUME Typed, Mutex, Owned, NEW c \in Clients,
         RecreateContainer(c) \/ CreateContainer(c) \/ AwaitReady(c)
  PROVE  Owned'
<1>1. /\ at[c] \notin RowFree /\ Inside(c) /\ UNCHANGED <<row, site>>
      /\ job[c] \in Job /\ row[TaskOf(c)] # NoRow
  BY UnderWay
  DEF RowFree, Inside, RecreateContainer, CreateContainer, AwaitReady, OnlyDocker, OnlyMoves, Owned
<1>2. PICK label \in {"markRestarting", "saveRecreated", "start", "fail", "persistCreated",
                      "persistRunning"} : Go(c, label)
  <2>1. AfterCreation(c) \in {"markRestarting", "saveRecreated", "start"}
    BY Zenon DEF AfterCreation
  <2>. QED
    BY <2>1, Zenon DEF RecreateContainer, CreateContainer, AwaitReady
<1>3. UNCHANGED job \/ \E q : SetRow(c, q)
  BY Zenon DEF RecreateContainer, CreateContainer, AwaitReady
<1>4. /\ job'[c].task = job[c].task /\ job'[c].op = job[c].op
      /\ \A b \in Clients \ {c} : job'[b] = job[b]
  BY <1>1, <1>3 DEF SetRow, Typed, Job
<1>. QED
  BY <1>1, <1>2, <1>4, QuietOwns

\* The read an operation begins with: the request works on a row that is there.
LEMMA BeginOwns ==
  ASSUME Typed, Mutex, Owned, NEW c \in Clients, Reads(c, OpOf(c)), OnlyMoves,
         NEW label, Go(c, label), NEW r, NEW next, NEW recreate, Begin(c, r, next, recreate),
         OpOf(c) = "delete" => label = "clear"
  PROVE  Owned'
<1>. DEFINE new == [job[c] EXCEPT !.row = r, !.was = row[TaskOf(c)],
                                  !.next = next, !.recreate = recreate]
<1>1. Inside(c) /\ job[c] \in Job /\ UNCHANGED <<row, site>> /\ row[TaskOf(c)] # NoRow
  BY UnderWay DEF Reads, Inside, OnlyMoves
<1>2. new.op = job[c].op /\ new.task = job[c].task
  BY <1>1 DEF Job
<1>3. job' = [job EXCEPT ![c] = new]
  BY DEF Begin
<1>. HIDE DEF new
<1>4. job'[c] = new /\ \A b \in Clients \ {c} : job'[b] = job[b]
  BY <1>3 DEF Typed
<1>. QED
  BY <1>1, <1>2, <1>4, QuietOwns

LEMMA ReadsOwn ==
  ASSUME Typed, Mutex, Owned, NEW c \in Clients,
         \/ BeginStart(c) \/ BeginStop(c) \/ BeginRestart(c) \/ BeginDelete(c)
         \/ BeginUpdate(c) \/ BeginDeploy(c)
  PROVE  Owned'
<1>1. Reads(c, OpOf(c)) /\ OnlyMoves
  BY DEF Reads, BeginStart, BeginStop, BeginRestart, BeginDelete, BeginUpdate, BeginDeploy
<1>2. PICK label, r, next, recreate :
        /\ Go(c, label) /\ Begin(c, r, next, recreate)
        /\ OpOf(c) = "delete" => label = "clear"
  <2>1. CASE BeginStart(c) \/ BeginStop(c) \/ BeginRestart(c) \/ BeginDelete(c)
    BY <2>1 DEF BeginStart, BeginStop, BeginRestart, BeginDelete, Reads
  <2>2. CASE BeginUpdate(c) \/ BeginDeploy(c)
    <3>1. OpOf(c) # "delete"
      BY <2>2 DEF BeginUpdate, BeginDeploy, Reads
    <3>2. PICK want, routes, hash, again : EditTask(c, want, routes, hash, again)
      BY <2>2, Zenon DEF BeginUpdate, BeginDeploy
    <3>3. \E label, r, next, recreate : Go(c, label) /\ Begin(c, r, next, recreate)
      BY <3>2, Zenon DEF EditTask
    <3>. QED
      BY <3>1, <3>3
  <2>. QED
    BY <2>1, <2>2
<1>. QED
  BY <1>1, <1>2, BeginOwns

\* Create takes a name whose site no task has; Delete gives it back withdrawn.
LEMMA RowsOwn ==
  ASSUME Typed, Mutex, Owned, NEW c \in Clients, Reserve(c) \/ DropRow(c)
  PROVE  Owned'
<1>. DEFINE t == TaskOf(c)
<1>1. /\ Inside(c) /\ job[c] \in Job /\ t \in Tasks /\ Assigned(c) /\ site' = site
  BY UnderWay DEF Reserve, DropRow, Inside
<1>2. SiteOf \in [Tasks -> Sites]
  BY RegistryAssumption
<1>3. CASE Reserve(c)
  <2>1. PICK r \in Row, label \in {"pull", "done"} :
          /\ row' = [row EXCEPT ![t] = r] /\ Go(c, label)
          /\ SetRow(c, r) \/ UNCHANGED job
    <3>1. PICK spec \in Specs :
            LET r == [status |-> "creating", spec |-> spec, cid |-> NoCid,
                      addr |-> NoAddr, pending |-> FALSE,
                      routes |-> NoRoutes, hash |-> NoHash]
            IN /\ row' = [row EXCEPT ![t] = r]
               /\ \/ SetRow(c, r) /\ Go(c, "pull")
                  \/ "lost" \in Faults /\ UNCHANGED job /\ Go(c, "done")
      BY <1>3 DEF Reserve
    <3>2. [status |-> "creating", spec |-> spec, cid |-> NoCid, addr |-> NoAddr,
           pending |-> FALSE, routes |-> NoRoutes, hash |-> NoHash] \in Row
      BY TaskDataAssumption DEF Row, Statuses
    <3>. QED
      BY <3>1, <3>2
  <2>2. \A u \in Tasks : SiteOf[u] = SiteOf[t] => row[u] = NoRow
    BY <1>3 DEF Reserve, NameTaken
  <2>3. \A u \in Tasks : row'[u] = IF u = t THEN r ELSE row[u]
    BY <1>1, <2>1 DEF Typed
  <2>4. r # NoRow /\ at[c] = "reserve" /\ OpOf(c) = "create"
    BY <1>1, <1>3, TaskDataAssumption DEF Reserve, Assigned
  <2>5. /\ job'[c].task = job[c].task /\ job'[c].op = job[c].op /\ at'[c] = label
        /\ \A b \in Clients \ {c} : job'[b] = job[b] /\ at'[b] = at[b]
    BY <1>1, <2>1 DEF SetRow, Typed, Job, Go
  <2>6. \A b \in Clients : at'[b] \notin RowFree => row'[TaskOf(b)'] # NoRow
    <3>1. ASSUME NEW b \in Clients \ {c}, at[b] \notin RowFree
          PROVE  TaskOf(b) \in Tasks /\ row'[TaskOf(b)] # NoRow
      BY <2>3, <2>4, <3>1, UnderWay DEF Owned, RowFree
    <3>. QED
      BY <1>1, <2>3, <2>4, <2>5, <3>1 DEF TaskOf
  <2>7. \A u, v \in Tasks :
          row'[u] # NoRow /\ row'[v] # NoRow /\ SiteOf[u] = SiteOf[v] => u = v
    BY <2>2, <2>3 DEF Owned
  <2>8. \A b \in Clients : Withdrawn(b)' => site'[SiteOf[TaskOf(b)']] = EmptySite
    BY <1>1, <2>4, <2>5 DEF Withdrawn, OpOf, TaskOf, Owned
  <2>9. SitesHaveRows'
    BY <1>1, <2>3, <2>4 DEF SitesHaveRows, Owned
  <2>. QED
    BY <2>6, <2>7, <2>8, <2>9 DEF Owned
<1>4. CASE DropRow(c)
  <2>1. /\ at[c] = "drop" /\ Go(c, "done") /\ UNCHANGED job
        /\ row' = [row EXCEPT ![t] = NoRow] \/ row' = row
    BY <1>4 DEF DropRow
  <2>2. Withdrawn(c)
    BY <1>1, <2>1 DEF Assigned, Withdrawn
  <2>3. \A u \in Tasks : row'[u] = row[u] \/ (u = t /\ row'[u] = NoRow)
    BY <1>1, <2>1 DEF Typed
  <2>4. at'[c] = "done" /\ \A b \in Clients \ {c} : at'[b] = at[b]
    BY <2>1 DEF Go, Typed
  <2>5. ASSUME NEW b \in Clients, at'[b] \notin RowFree
        PROVE  row'[TaskOf(b)] # NoRow
    <3>1. b # c /\ at[b] \notin RowFree /\ Inside(b)
      BY <2>4, <2>5 DEF RowFree, Inside
    <3>2. TaskOf(b) \in Tasks /\ TaskOf(b) # t /\ row[TaskOf(b)] # NoRow
      BY <1>1, <3>1, Alone, UnderWay DEF Owned, Inside
    <3>. QED
      BY <2>3, <3>2
  <2>6. \A b \in Clients : Withdrawn(b)' => site'[SiteOf[TaskOf(b)]] = EmptySite
    BY <1>1, <2>1, <2>4 DEF Withdrawn, OpOf, TaskOf, Owned
  <2>7. SitesHaveRows'
    <3>1. site[SiteOf[t]] = EmptySite
      BY <2>2 DEF Owned
    <3>. QED
      BY <1>1, <2>3, <3>1 DEF SitesHaveRows, Owned
  <2>8. TaskOf(c)' = TaskOf(c) /\ \A b \in Clients : TaskOf(b)' = TaskOf(b)
    BY <2>1 DEF TaskOf
  <2>. QED
    BY <2>3, <2>5, <2>6, <2>7, <2>8 DEF Owned
<1>. QED
  BY <1>3, <1>4

\* A request comes, enters the mutex, and leaves it.
LEMMA AdmissionOwns ==
  ASSUME Typed, Owned, NEW c \in Clients, Request(c) \/ Enter(c) \/ Unlock(c)
  PROVE  Owned'
<1>1. /\ UNCHANGED <<row, site>> /\ at'[c] \in RowFree
      /\ \A b \in Clients \ {c} : at'[b] = at[b] /\ job'[b] = job[b]
  BY DEF Request, Enter, Unlock, OnlyMoves, Go, Typed, RowFree
<1>2. ~Withdrawn(c)'
  BY <1>1 DEF Withdrawn, RowFree
<1>. QED
  BY <1>1, <1>2 DEF Owned, SitesHaveRows, Withdrawn, TaskOf, OpOf

\* Startup and a crash; Reconcile registers the tasks that have a row.
LEMMA ProcessOwns ==
  ASSUME Typed, Owned,
         \/ Crash \/ Startup
         \/ \E k \in Cids : Exit(k) \/ Revive(k) \/ Interfere(k)
  PROVE  Owned'
<1>1. CASE Crash
  BY <1>1 DEF Crash, Typed, Owned, RowFree, Withdrawn, SitesHaveRows
<1>2. CASE Boot \/ Listen \/ \E k \in Cids : Exit(k) \/ Revive(k) \/ Interfere(k)
  <2>1. UNCHANGED <<row, site, at, job>>
    BY <1>2 DEF Boot, Listen, Exit, Revive, Interfere, Others, process
  <2>. QED
    BY <2>1 DEF Owned, SitesHaveRows, Withdrawn, TaskOf, OpOf
<1>3. ASSUME NEW t \in Tasks, ReconcileTask(t) \/ ReconcileSave(t)
      PROVE  Owned'
  <2>1. /\ \A c \in Clients : at[c] = "idle"
        /\ row[t] \in Row /\ UNCHANGED <<at, job>> /\ SiteOf \in [Tasks -> Sites]
    BY <1>3, RegistryAssumption DEF ReconcileTask, ReconcileSave, Saving, Typed, BootAlone
  <2>2. \A c \in Clients : at'[c] \in RowFree /\ ~Withdrawn(c)'
    BY <2>1 DEF Withdrawn, RowFree
  <2>3. \A u \in Tasks : (row'[u] # NoRow) <=> (row[u] # NoRow)
    <3>1. row' = row \/ (repaired[t] # NoRow /\ row' = [row EXCEPT ![t] = repaired[t]])
      BY <1>3 DEF ReconcileTask, ReconcileSave, Saving
    <3>. QED
      BY <2>1, <3>1, TaskDataAssumption DEF Typed
  <2>4. \A s \in Sites \ {SiteOf[t]} : site'[s] = site[s]
    BY <1>3, <2>1
    DEF ReconcileTask, ReconcileSave, Unregistered, Registered, WithRoutes, WithLock, Typed
  <2>5. SitesHaveRows'
    BY <2>1, <2>3, <2>4, TaskDataAssumption DEF SitesHaveRows, Owned
  <2>. QED
    BY <2>2, <2>3, <2>5 DEF Owned
<1>. QED
  BY <1>1, <1>2, <1>3 DEF Startup

LEMMA NextOwns ==
  ASSUME Typed, Mutex, Owned, [Next]_vars
  PROVE  Owned'
<1>1. ASSUME NEW c \in Clients, Step(c)
      PROVE  Owned'
  BY <1>1, AdmissionOwns, PersistActionsOwn, MovesOwn, ContainerChangesOwn, ReadsOwn, RowsOwn,
     RegistryOwns DEF Step
<1>2. CASE UNCHANGED vars
  BY <1>2 DEF vars, Owned, SitesHaveRows, Withdrawn, TaskOf, OpOf
<1>. QED
  BY <1>1, <1>2, AdmissionOwns, ProcessOwns DEF Next

\* The proxy serves no name whose task is gone, nor does a request for a task bring a
\* deleted one back on the proxy (Delete clears the site first; no request works on a
\* task without a row), although tasks that share a site lock different mutexes:
\* whatever calls fail, or take effect and report an error, and across crashes.
THEOREM ServedTasksExist == Spec => []SitesHaveRows
<1>1. Init => Typed /\ Mutex /\ Settled /\ Owned
  BY InitTyped
  DEF Init, Mutex, Inside, Settled, Keeps, Owned, Withdrawn, SitesHaveRows, RowFree
<1>2. /\ Typed /\ Mutex /\ Settled /\ Owned /\ [Next]_vars
      => (Typed /\ Mutex /\ Settled /\ Owned)'
  BY NextTyped, NextSettles, NextOwns
<1>3. Typed /\ Mutex /\ Settled /\ Owned => SitesHaveRows
  BY DEF Owned
<1>. QED
  BY <1>1, <1>2, <1>3, PTL DEF Spec
=============================================================================
