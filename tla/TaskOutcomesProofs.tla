------------------------- MODULE TaskOutcomesProofs -------------------------
(***************************************************************************)
(* What the operations of TaskLifecycle leave behind when their saves can  *)
(* be relied on.  TaskService saves best effort: an operation whose save   *)
(* fails, or that a crash cuts short, leaves a status, a container or a    *)
(* hop that nothing but a later operation or Reconcile puts right.  So the *)
(* theorems here have a hypothesis on Faults; TLC finds a counterexample   *)
(* for each fault that a hypothesis leaves out.                            *)
(***************************************************************************)
EXTENDS TaskLifecycleProofs

USE DEF TypeOK, MaybeRow

\* Every statement on the tasks table works, and Boreas stays up.
Reliable == Faults \cap {"store", "lost", "crash"} = {}

\* tasks.Update from a label past the read: the request's row is there.
LEMMA PersistSucceeds ==
  ASSUME Typed, Owned, "store" \notin Faults, "lost" \notin Faults, NEW c \in Clients,
         NEW label, label \notin RowFree, NEW r, NEW next, NEW failed,
         Persist(c, label, r, next, failed)
  PROVE  /\ Inside(c) /\ at[c] = label /\ TaskOf(c) \in Tasks /\ row[TaskOf(c)] # NoRow
         /\ job[c] \in Job /\ Go(c, next) /\ SetRow(c, r)
         /\ row' = [row EXCEPT ![TaskOf(c)] = r]
         /\ UNCHANGED <<docker, site, holder, process>>
  BY UnderWay DEF Persist, Inside, RowFree, Owned

(***************************************************************************)
(* A transient status is the debt of the request that set it: it is past   *)
(* the point where it may give up without a word, so each of its ways out  *)
(* saves "running", "stopped" or "error" (finishStart, failTask).          *)
(***************************************************************************)
Unsettled(r) == r.status \in {"creating", "starting"}

\* Every path from here saves the row again.
Obliged(c) ==
  \/ at[c] \in {"create", "persistCreated", "recreate", "markStarting", "markRestarting",
                "saveRecreated", "start", "ready", "persistRunning", "fail"}
  \/ at[c] = "pull" /\ OpOf(c) = "create"

\* What a request is about to save.
Promises(c) ==
  /\ at[c] # "undo"
  /\ at[c] = "persistRunning" => job[c].row.status = "running"
  /\ at[c] \in {"save", "saveRecreated"} => IsUpdate(c)
  /\ at[c] \in {"create", "persistCreated"} => OpOf(c) = "create"
  /\ at[c] = "markRestarting" => OpOf(c) = "restart"
  /\ at[c] \notin RowFree /\ IsUpdate(c) => ~Unsettled(job[c].row)
  /\ at[c] \in Pending /\ IsUpdate(c) => ~Unsettled(job[c].next)

Answered ==
  /\ phase # "up" => \A t \in Tasks : row[t] = NoRow
  /\ \A c \in Clients : Promises(c)
  /\ \A t \in Tasks : row[t] # NoRow /\ Unsettled(row[t]) =>
       \E c \in Clients : Obliged(c) /\ TaskOf(c) = t

LEMMA NothingOwed ==
  ASSUME Typed, Mutex, Answered, NEW c \in Clients, Inside(c), ~Obliged(c),
         row[TaskOf(c)] # NoRow
  PROVE  ~Unsettled(row[TaskOf(c)])
<1>1. TaskOf(c) \in Tasks
  BY UnderWay DEF Inside
<1>2. ASSUME NEW b \in Clients, Obliged(b), TaskOf(b) = TaskOf(c)
      PROVE  FALSE
  BY <1>2, Alone DEF Obliged, Inside
<1>. QED
  BY <1>1, <1>2 DEF Answered

\* A step inside the mutex, after which the request owes what its row needs.
LEMMA WorkAnswers ==
  ASSUME Typed, Mutex, Answered, NEW c \in Clients, Inside(c), UNCHANGED phase,
         TaskOf(c)' = TaskOf(c), \A b \in Clients \ {c} : at'[b] = at[b] /\ job'[b] = job[b],
         \A u \in Tasks : u # TaskOf(c) => row'[u] = row[u], Promises(c)',
         row'[TaskOf(c)] # NoRow /\ Unsettled(row'[TaskOf(c)]) => Obliged(c)'
  PROVE  Answered'
<1>1. TaskOf(c) \in Tasks /\ phase' = "up"
  BY UnderWay DEF Inside
<1>2. \A b \in Clients : Promises(b)'
  BY DEF Answered, Promises, TaskOf, OpOf, IsUpdate
<1>3. ASSUME NEW u \in Tasks, row'[u] # NoRow, Unsettled(row'[u])
      PROVE  \E b \in Clients : Obliged(b)' /\ TaskOf(b)' = u
  <2>1. CASE u = TaskOf(c)
    BY <1>3, <2>1
  <2>2. CASE u # TaskOf(c)
    <3>1. PICK b \in Clients : Obliged(b) /\ TaskOf(b) = u
      BY <1>3, <2>2 DEF Answered
    <3>2. b # c /\ at'[b] = at[b] /\ job'[b] = job[b]
      BY <2>2, <3>1
    <3>. QED
      BY <3>1, <3>2 DEF Obliged, TaskOf, OpOf
  <2>. QED
    BY <2>1, <2>2
<1>. QED
  BY <1>1, <1>2, <1>3 DEF Answered

\* A step that leaves the row and the copies alone.
LEMMA MoveAnswers ==
  ASSUME Typed, Mutex, Answered, NEW c \in Clients, Inside(c), UNCHANGED <<row, job, phase>>,
         NEW label, Go(c, label), label # "undo", label # "persistRunning",
         label \notin {"save", "saveRecreated", "persistCreated", "markRestarting"},
         label = "create" => OpOf(c) = "create",
         label \notin RowFree => at[c] \notin RowFree,
         label \in Pending /\ IsUpdate(c) => at[c] \in Pending,
         Obliged(c) => Obliged(c)'
  PROVE  Answered'
<1>1. at'[c] = label /\ \A b \in Clients \ {c} : at'[b] = at[b]
  BY DEF Go, Typed
<1>2. Promises(c)'
  BY <1>1 DEF Promises, Answered, IsUpdate, OpOf
<1>. QED
  BY <1>1, <1>2, NothingOwed, WorkAnswers DEF TaskOf

\* tasks.Update: a transient status is saved by a request that goes on.
LEMMA WriteAnswers ==
  ASSUME Typed, Mutex, Owned, Answered, Reliable, NEW c \in Clients,
         NEW label, label \notin RowFree, NEW r, NEW next, NEW failed,
         Persist(c, label, r, next, failed),
         next \in {"register", "done", "publish", "start", "recreate"},
         Unsettled(r) => next \in {"start", "recreate"} /\ ~IsUpdate(c)
  PROVE  Answered'
<1>1. /\ Inside(c) /\ TaskOf(c) \in Tasks /\ job[c] \in Job /\ Go(c, next) /\ SetRow(c, r)
      /\ row' = [row EXCEPT ![TaskOf(c)] = r] /\ UNCHANGED process
  BY PersistSucceeds DEF Reliable
<1>2. /\ at'[c] = next /\ job'[c].op = job[c].op /\ job'[c].task = job[c].task
      /\ job'[c].row = r /\ \A b \in Clients \ {c} : at'[b] = at[b] /\ job'[b] = job[b]
      /\ \A u \in Tasks : row'[u] = IF u = TaskOf(c) THEN r ELSE row[u]
  BY <1>1 DEF Go, SetRow, Typed, Job
<1>3. Promises(c)'
  BY <1>2 DEF Promises, IsUpdate, OpOf, Pending
<1>4. Unsettled(r) => Obliged(c)'
  BY <1>2 DEF Obliged
<1>. QED
  BY <1>1, <1>2, <1>3, <1>4, WorkAnswers DEF TaskOf, process

LEMMA PersistActionsAnswer ==
  ASSUME Typed, Mutex, Owned, Answered, Reliable, NEW c \in Clients,
         \/ PersistRunning(c) \/ FailTask(c) \/ PersistCreated(c) \/ MarkStarting(c)
         \/ PersistStopped(c) \/ MarkRestarting(c) \/ SaveMetadata(c) \/ SaveSpec(c)
         \/ SaveRecreated(c)
  PROVE  Answered'
<1>. DEFINE r == job[c].row
<1>1. at[c] \notin RowFree /\ r \in Row /\ Promises(c) /\ Assigned(c)
  BY UnderWay
  DEF RowFree, Assigned, Persist, PersistRunning, FailTask, PersistCreated, MarkStarting,
      PersistStopped, MarkRestarting, SaveMetadata, SaveSpec, SaveRecreated, Answered
<1>2. /\ ~Unsettled([r EXCEPT !.status = "error"])
      /\ ~Unsettled([r EXCEPT !.status = "stopped", !.addr = NoAddr])
  BY <1>1 DEF Row, Unsettled
<1>3. Returned(c) \in {"publish", "done"}
  BY DEF Returned
<1>4. CASE PersistRunning(c)
  <2>1. ~Unsettled(r)
    BY <1>1, <1>4 DEF PersistRunning, Persist, Promises, Unsettled
  <2>. HIDE DEF r
  <2>. QED
    BY <1>1, <1>4, <2>1, WriteAnswers DEF PersistRunning, RowFree, r
<1>5. CASE FailTask(c)
  <2>. HIDE DEF r
  <2>. QED
    BY <1>2, <1>3, <1>5, WriteAnswers DEF FailTask, RowFree, r
<1>6. CASE PersistCreated(c)
  <2>1. IsUpdate(c) => ~Unsettled(r)
    BY <1>1 DEF Promises
  <2>. HIDE DEF r
  <2>. QED
    BY <1>6, <2>1, WriteAnswers DEF PersistCreated, RowFree, r
<1>7. CASE MarkStarting(c)
  <2>1. IsUpdate(c) => ~Unsettled(r)
    BY <1>1 DEF Promises
  <2>. HIDE DEF r
  <2>. QED
    BY <1>7, <2>1, WriteAnswers DEF MarkStarting, RowFree, r
<1>8. CASE PersistStopped(c)
  <2>. HIDE DEF r
  <2>. QED
    BY <1>2, <1>8, WriteAnswers DEF PersistStopped, RowFree, r
<1>9. CASE MarkRestarting(c)
  <2>1. ~IsUpdate(c)
    BY <1>1, <1>9 DEF MarkRestarting, Persist, Promises, IsUpdate
  <2>. QED
    BY <1>9, <2>1, WriteAnswers DEF MarkRestarting, RowFree
<1>10. CASE SaveMetadata(c) \/ SaveRecreated(c)
  <2>1. ~Unsettled(r)
    BY <1>1, <1>10 DEF SaveMetadata, SaveRecreated, Persist, Promises
  <2>. HIDE DEF r
  <2>. QED
    BY <1>3, <1>10, <2>1, WriteAnswers DEF SaveMetadata, SaveRecreated, RowFree, r
<1>11. CASE SaveSpec(c)
  <2>1. ~Unsettled(job[c].next)
    BY <1>1, <1>11 DEF SaveSpec, Persist, Promises, Assigned, Pending
  <2>. QED
    BY <1>3, <1>11, <2>1, WriteAnswers DEF SaveSpec, RowFree
<1>. QED
  BY <1>4, <1>5, <1>6, <1>7, <1>8, <1>9, <1>10, <1>11

LEMMA MovesAnswer ==
  ASSUME Typed, Mutex, Answered, NEW c \in Clients,
         \/ Pull(c) \/ StopContainer(c) \/ StartContainer(c) \/ UndoCreate(c)
         \/ InspectForDelete(c) \/ RemoveContainer(c)
         \/ Unregister(c) \/ Register(c) \/ Clear(c) \/ Publish(c)
         \/ Refuse(c) \/ DeployAgain(c)
  PROVE  Answered'
<1>1. Inside(c) /\ UNCHANGED <<row, job, phase>> /\ Promises(c)
  BY DEF Inside, Pull, StopContainer, StartContainer, UndoCreate, InspectForDelete,
         RemoveContainer, Unregister, Register, Clear, Publish, Refuse, DeployAgain, Reads,
         OnlyMoves, OnlyDocker, OnlyRegistry, process, Answered
<1>2. Assigned(c) /\ at \in [Clients -> Labels] /\ OpOf(c)' = OpOf(c)
  BY <1>1, UnderWay DEF Inside, OpOf, Typed
<1>3. CASE Pull(c)
  <2>1. OpOf(c) # "create" => OpOf(c) # "delete"
    BY <1>2, <1>3 DEF Pull, Assigned
  <2>2. PICK label \in {"create", "fail", "unregister", "stop", "saveSpec", "done"} :
          /\ Go(c, label)
          /\ OpOf(c) = "create" => label \in {"create", "fail"}
    BY <1>3 DEF Pull
  <2>3. at'[c] = label
    BY <1>2, <2>2 DEF Go
  <2>. QED
    BY <1>1, <1>2, <1>3, <2>2, <2>3, MoveAnswers DEF Pull, Obliged, Pending, RowFree
<1>4. CASE StopContainer(c)
  <2>1. PICK label \in {"done", "fail", "remove", "unregister"} :
          Go(c, label)
    BY <1>4 DEF StopContainer
  <2>. QED
    BY <1>1, <1>2, <1>4, <2>1, MoveAnswers DEF StopContainer, Obliged, Pending, RowFree
<1>5. CASE StartContainer(c)
  <2>1. PICK label \in {"ready", "fail"} : Go(c, label) /\ at'[c] = label
    BY <1>2, <1>5 DEF StartContainer, Go
  <2>. QED
    BY <1>1, <1>5, <2>1, MoveAnswers DEF StartContainer, Obliged, Pending, RowFree
<1>6. CASE UndoCreate(c) \/ InspectForDelete(c) \/ RemoveContainer(c) \/ Clear(c)
  <2>1. PICK label \in {"done", "stop", "remove", "drop", "inspect"} :
          Go(c, label) /\ (label = "stop" => ~IsUpdate(c))
    BY <1>2, <1>6 DEF UndoCreate, InspectForDelete, RemoveContainer, Clear, Assigned, IsUpdate
  <2>2. at[c] \notin RowFree /\ ~Obliged(c)
    BY <1>6 DEF UndoCreate, InspectForDelete, RemoveContainer, Clear, RowFree, Obliged
  <2>. QED
    BY <1>1, <2>1, <2>2, MoveAnswers DEF Pending
<1>7. CASE Unregister(c)
  <2>1. PICK label \in {"persistStopped", "recreate", "saveSpec"} : Go(c, label)
    BY <1>7 DEF Unregister
  <2>. QED
    BY <1>1, <1>7, <2>1, MoveAnswers DEF Unregister, Obliged, Pending, RowFree
<1>8. CASE Register(c) \/ Publish(c)
  <2>1. PICK label \in {"publish", "done"} : Go(c, label)
    BY <1>8 DEF Register, Publish, Returned
  <2>2. at[c] \notin RowFree /\ ~Obliged(c)
    BY <1>8 DEF Register, Publish, RowFree, Obliged
  <2>. QED
    BY <1>1, <2>1, <2>2, MoveAnswers DEF Pending
<1>9. CASE Refuse(c) \/ DeployAgain(c)
  BY <1>1, <1>9, MoveAnswers DEF Refuse, DeployAgain, Reads, RowFree, Obliged, Pending
<1>. QED
  BY <1>3, <1>4, <1>5, <1>6, <1>7, <1>8, <1>9

\* A new copy of the row, which the request goes on to save.
LEMMA CopyAnswers ==
  ASSUME Typed, Mutex, Answered, NEW c \in Clients, at[c] \notin RowFree,
         UNCHANGED <<row, process>>, NEW q, SetRow(c, q), NEW label, Go(c, label),
         label \in {"persistCreated", "markRestarting", "saveRecreated", "start", "persistRunning"},
         IsUpdate(c) => ~Unsettled(q), label = "persistRunning" => q.status = "running",
         label = "saveRecreated" => IsUpdate(c), label = "persistCreated" => OpOf(c) = "create",
         label = "markRestarting" => OpOf(c) = "restart"
  PROVE  Answered'
<1>1. Inside(c) /\ job[c] \in Job
  BY UnderWay DEF Inside, RowFree
<1>2. /\ at'[c] = label /\ job'[c].op = job[c].op /\ job'[c].task = job[c].task
      /\ job'[c].row = q /\ \A b \in Clients \ {c} : at'[b] = at[b] /\ job'[b] = job[b]
  BY <1>1 DEF Go, SetRow, Typed, Job
<1>3. Promises(c)' /\ Obliged(c)'
  BY <1>2 DEF Promises, IsUpdate, OpOf, Pending, Obliged
<1>. QED
  BY <1>1, <1>2, <1>3, WorkAnswers DEF TaskOf, process

LEMMA ContainerChangesAnswer ==
  ASSUME Typed, Mutex, Answered, NEW c \in Clients,
         RecreateContainer(c) \/ CreateContainer(c) \/ AwaitReady(c)
  PROVE  Answered'
<1>. DEFINE r == job[c].row
<1>1. /\ at[c] \notin RowFree /\ Inside(c) /\ r \in Row
      /\ UNCHANGED <<row, process>> /\ Promises(c) /\ Obliged(c)
  BY UnderWay
  DEF RowFree, Inside, Assigned, RecreateContainer, CreateContainer, AwaitReady, OnlyDocker,
      OnlyMoves, process, Answered, Obliged
<1>2. ASSUME Go(c, "fail"), UNCHANGED job
      PROVE  Answered'
  <2>1. at'[c] = "fail"
    BY <1>2 DEF Go, Typed
  <2>. QED
    BY <1>1, <1>2, <2>1, MoveAnswers DEF process, Pending, Obliged
<1>3. ASSUME RecreateContainer(c)
      PROVE  Answered'
  <2>1. /\ AfterCreation(c) \in {"markRestarting", "saveRecreated", "start"}
        /\ AfterCreation(c) = "saveRecreated" => IsUpdate(c)
        /\ AfterCreation(c) = "markRestarting" => OpOf(c) = "restart"
    BY DEF AfterCreation
  <2>2. ASSUME NEW k \in Cids, SetRow(c, [r EXCEPT !.cid = k, !.pending = FALSE]),
               Go(c, AfterCreation(c))
        PROVE  Answered'
    <3>1. PICK q : q = [r EXCEPT !.cid = k, !.pending = FALSE]
      OBVIOUS
    <3>2. q.status = r.status
      BY <1>1, <3>1 DEF Row
    <3>3. IsUpdate(c) => ~Unsettled(q)
      BY <1>1, <3>2 DEF Promises, Unsettled
    <3>4. SetRow(c, q)
      BY <2>2, <3>1
    <3>. QED
      BY <1>1, <2>1, <2>2, <3>3, <3>4, CopyAnswers
  <2>3. \/ Go(c, "fail") /\ UNCHANGED job
        \/ \E k \in Cids : /\ SetRow(c, [r EXCEPT !.cid = k, !.pending = FALSE])
                           /\ Go(c, AfterCreation(c))
    BY <1>3, Zenon DEF RecreateContainer
  <2>. QED
    BY <1>2, <2>2, <2>3
<1>4. ASSUME CreateContainer(c)
      PROVE  Answered'
  <2>1. OpOf(c) = "create"
    BY <1>1, <1>4 DEF CreateContainer, Promises
  <2>2. \/ Go(c, "fail") /\ UNCHANGED job
        \/ (\E q : SetRow(c, q)) /\ Go(c, "persistCreated")
    BY <1>4, Zenon DEF CreateContainer
  <2>. QED
    BY <1>1, <1>2, <2>1, <2>2, CopyAnswers DEF IsUpdate
<1>5. ASSUME AwaitReady(c)
      PROVE  Answered'
  <2>1. \/ Go(c, "fail") /\ UNCHANGED job
        \/ (\E q : SetRow(c, q) /\ q.status = "running") /\ Go(c, "persistRunning")
    <3>1. \A a : [r EXCEPT !.status = "running", !.pending = FALSE, !.addr = a].status = "running"
      BY <1>1 DEF Row
    <3>2. \/ Go(c, "fail") /\ UNCHANGED job
          \/ /\ \E a : SetRow(c, [r EXCEPT !.status = "running", !.pending = FALSE, !.addr = a])
             /\ Go(c, "persistRunning")
      BY <1>5, Zenon DEF AwaitReady
    <3>. QED
      BY <3>1, <3>2, Zenon
  <2>. QED
    BY <1>1, <1>2, <2>1, CopyAnswers DEF Unsettled
<1>. QED
  BY <1>3, <1>4, <1>5

\* The read an operation begins with: the row it finds is settled.
LEMMA BeginAnswers ==
  ASSUME Typed, Mutex, Answered, NEW c \in Clients, Reads(c, OpOf(c)), OnlyMoves,
         NEW label, Go(c, label), NEW r, NEW next, NEW recreate, Begin(c, r, next, recreate),
         label \in {"done", "markStarting", "unregister", "stop", "pull", "clear", "save", "saveSpec"},
         label = "save" => IsUpdate(c), IsUpdate(c) => r.status = row[TaskOf(c)].status,
         IsUpdate(c) /\ label \in Pending => ~Unsettled(next)
  PROVE  Answered'
<1>. DEFINE new == [job[c] EXCEPT !.row = r, !.was = row[TaskOf(c)],
                                  !.next = next, !.recreate = recreate]
<1>1. /\ Inside(c) /\ job[c] \in Job /\ UNCHANGED <<row, phase>> /\ row[TaskOf(c)] # NoRow
      /\ ~Obliged(c)
  BY UnderWay DEF Reads, Inside, OnlyMoves, Obliged, process
<1>2. /\ new.op = job[c].op /\ new.task = job[c].task /\ new.row = r /\ new.next = next
  BY <1>1 DEF Job
<1>3. job' = [job EXCEPT ![c] = new]
  BY DEF Begin
<1>. HIDE DEF new
<1>4. /\ job'[c] = new /\ at'[c] = label
      /\ \A b \in Clients \ {c} : at'[b] = at[b] /\ job'[b] = job[b]
  BY <1>3 DEF Typed, Go
<1>5. ~Unsettled(row[TaskOf(c)])
  BY <1>1, NothingOwed
<1>6. Promises(c)'
  BY <1>2, <1>4, <1>5 DEF Promises, IsUpdate, OpOf, Pending, Unsettled
<1>. QED
  BY <1>1, <1>2, <1>4, <1>5, <1>6, WorkAnswers DEF TaskOf

LEMMA ReadsAnswer ==
  ASSUME Typed, Mutex, Answered, NEW c \in Clients,
         BeginStart(c) \/ BeginStop(c) \/ BeginRestart(c) \/ BeginDelete(c)
  PROVE  Answered'
<1>1. Reads(c, OpOf(c)) /\ OnlyMoves /\ ~IsUpdate(c)
  BY DEF Reads, BeginStart, BeginStop, BeginRestart, BeginDelete, IsUpdate
<1>2. PICK label \in {"markStarting", "unregister", "stop", "pull", "clear"} :
        \E r : Go(c, label) /\ Begin(c, r, NoRow, FALSE)
  BY DEF BeginStart, BeginStop, BeginRestart, BeginDelete
<1>3. PICK r : Go(c, label) /\ Begin(c, r, NoRow, FALSE)
  BY <1>2
<1>. QED
  BY <1>1, <1>3, BeginAnswers

LEMMA EditAnswers ==
  ASSUME Typed, Mutex, Answered, NEW c \in Clients, BeginUpdate(c) \/ BeginDeploy(c)
  PROVE  Answered'
<1>. DEFINE r == row[TaskOf(c)]
<1>1. Reads(c, OpOf(c)) /\ OnlyMoves /\ IsUpdate(c) /\ r \in Row
  BY UnderWay DEF Reads, BeginUpdate, BeginDeploy, IsUpdate, Typed
<1>2. PICK want, routes, hash, recreate : EditTask(c, want, routes, hash, recreate)
  BY Zenon DEF BeginUpdate, BeginDeploy
<1>. DEFINE edited == [r EXCEPT !.routes = routes, !.hash = hash]
            wanted == WithSpec(edited, want)
<1>3. edited.status = r.status /\ ~Unsettled(wanted)
  BY <1>1 DEF Row, WithSpec, Unsettled
<1>4. \/ /\ Begin(c, edited, NoRow, recreate)
         /\ Go(c, "done") \/ Go(c, "save")
      \/ /\ Begin(c, edited, wanted, recreate)
         /\ Go(c, "pull") \/ Go(c, "stop") \/ Go(c, "saveSpec")
  <2>1. CASE Begin(c, edited, NoRow, recreate)
             /\ Go(c, IF edited = r THEN "done" ELSE "save")
    BY <2>1
  <2>2. CASE /\ Begin(c, edited, wanted, recreate)
             /\ Go(c, CASE recreate /\ want.image # r.spec.image -> "pull"
                        [] r.status = "running"                  -> "stop"
                        [] OTHER                                 -> "saveSpec")
    BY <2>2
  <2>. QED
    BY <1>2, <2>1, <2>2 DEF EditTask
<1>. HIDE DEF edited, wanted
<1>. QED
  BY <1>1, <1>3, <1>4, BeginAnswers DEF Pending

LEMMA RowsAnswer ==
  ASSUME Typed, Mutex, Answered, Reliable, NEW c \in Clients, Reserve(c) \/ DropRow(c)
  PROVE  Answered'
<1>1. /\ Inside(c) /\ job[c] \in Job /\ TaskOf(c) \in Tasks /\ Assigned(c) /\ UNCHANGED process
  BY UnderWay DEF Reserve, DropRow, Inside, process
<1>2. CASE Reserve(c)
  <2>1. PICK r : SetRow(c, r) /\ Go(c, "pull") /\ row' = [row EXCEPT ![TaskOf(c)] = r]
    BY <1>2, Zenon DEF Reserve, Reliable
  <2>2. OpOf(c) = "create"
    BY <1>1, <1>2 DEF Reserve, Assigned
  <2>3. /\ at'[c] = "pull" /\ job'[c].op = job[c].op /\ job'[c].task = job[c].task
        /\ \A b \in Clients \ {c} : at'[b] = at[b] /\ job'[b] = job[b]
        /\ \A u \in Tasks : u # TaskOf(c) => row'[u] = row[u]
    BY <1>1, <2>1 DEF Go, SetRow, Typed, Job
  <2>4. Promises(c)' /\ Obliged(c)'
    BY <2>2, <2>3 DEF Promises, Obliged, IsUpdate, OpOf, Pending
  <2>. QED
    BY <1>1, <2>3, <2>4, WorkAnswers DEF TaskOf, process
<1>3. CASE DropRow(c)
  <2>1. Go(c, "done") /\ UNCHANGED job /\ row' = [row EXCEPT ![TaskOf(c)] = NoRow]
    BY <1>3 DEF DropRow, Reliable
  <2>2. /\ at'[c] = "done" /\ \A b \in Clients \ {c} : at'[b] = at[b]
        /\ \A u \in Tasks : row'[u] = IF u = TaskOf(c) THEN NoRow ELSE row[u]
    BY <1>1, <2>1 DEF Go, Typed
  <2>3. Promises(c)'
    BY <2>2 DEF Promises, RowFree, Pending
  <2>. QED
    BY <1>1, <2>1, <2>2, <2>3, WorkAnswers DEF TaskOf, process
<1>. QED
  BY <1>2, <1>3

\* A request comes, enters the mutex, and leaves it: it owes nothing by then.
LEMMA AdmissionAnswers ==
  ASSUME Typed, Answered, NEW c \in Clients, Request(c) \/ Enter(c) \/ Unlock(c)
  PROVE  Answered'
<1>1. /\ UNCHANGED <<row, phase>> /\ at'[c] \in RowFree /\ ~Obliged(c)
      /\ \A b \in Clients \ {c} : at'[b] = at[b] /\ job'[b] = job[b]
  BY DEF Request, Enter, Unlock, OnlyMoves, Go, Typed, RowFree, process, Obliged
<1>2. \A b \in Clients : Promises(b)'
  BY <1>1 DEF Answered, Promises, RowFree, Pending, OpOf, IsUpdate
<1>3. \A b \in Clients : Obliged(b) => Obliged(b)' /\ TaskOf(b)' = TaskOf(b)
  BY <1>1 DEF Obliged, OpOf, TaskOf
<1>. QED
  BY <1>1, <1>2, <1>3 DEF Answered

\* Without a crash Boreas starts once, with nothing to reconcile.
LEMMA ProcessAnswers ==
  ASSUME Typed, Answered, Reliable,
         \/ Crash \/ Startup
         \/ \E k \in Cids : Exit(k) \/ Revive(k) \/ Interfere(k)
  PROVE  Answered'
<1>1. ~Crash
  BY DEF Crash, Reliable
<1>2. ASSUME NEW t \in Tasks
      PROVE  ~ReconcileTask(t) /\ ~ReconcileSave(t)
  BY TaskDataAssumption DEF ReconcileTask, ReconcileSave, Saving, Typed, BootAlone, Answered
<1>3. UNCHANGED <<row, at, job>> /\ (phase' # "up" => phase # "up")
  BY <1>1, <1>2 DEF Startup, Boot, Listen, Exit, Revive, Interfere, Others, process
<1>. QED
  BY <1>3 DEF Answered, Promises, Obliged, TaskOf, OpOf, IsUpdate

LEMMA NextAnswers ==
  ASSUME Typed, Mutex, Owned, Answered, Reliable, [Next]_vars
  PROVE  Answered'
<1>1. ASSUME NEW c \in Clients, Step(c)
      PROVE  Answered'
  BY <1>1, AdmissionAnswers, PersistActionsAnswer, MovesAnswer, ContainerChangesAnswer,
     ReadsAnswer, EditAnswers, RowsAnswer DEF Step
<1>2. CASE UNCHANGED vars
  BY <1>2 DEF vars, process, Answered, Promises, Obliged, TaskOf, OpOf, IsUpdate
<1>. QED
  BY <1>1, <1>2, AdmissionAnswers, ProcessAnswers DEF Next

\* The invariants of TaskLifecycleProofs that hold whatever fails.
Base == Typed /\ Tracking /\ Mutex /\ Settled /\ Owned

LEMMA InitBase == Init => Base
  BY InitTyped, InitTracking
  DEF Base, Init, Mutex, Inside, Settled, Keeps, Owned, Withdrawn, SitesHaveRows, RowFree

LEMMA NextBase == Base /\ [Next]_vars => Base'
  BY NextTyped, NextTracking, NextSettles, NextOwns DEF Base

\* No request leaves a task creating or starting, where Start, Stop and Restart are
\* refused for ever, whichever of its Docker calls, pulls and waits fail and whatever
\* happens to the containers, as long as the statements on the tasks table work and
\* Boreas stays up: failTask and finishStart save what the request owes.
THEOREM StatusesSettle == Reliable => (Spec => []TransitionsSettle)
<1>. SUFFICES ASSUME Reliable
              PROVE  Spec => []TransitionsSettle
  OBVIOUS
<1>1. Init => Base /\ Answered
  BY InitBase DEF Init, Answered, Promises, RowFree, Pending
<1>2. Base /\ Answered /\ [Next]_vars => (Base /\ Answered)'
  BY NextBase, NextAnswers DEF Base
<1>3. Base /\ Answered => TransitionsSettle
  <2>. SUFFICES ASSUME Base, Answered, NEW t \in Tasks, NEW c \in Clients,
                       Obliged(c), TaskOf(c) = t, holder[t] = {}
                PROVE  FALSE
    BY DEF TransitionsSettle, Quiet, Answered, Unsettled
  <2>1. Inside(c)
    BY DEF Obliged, Inside
  <2>. QED
    BY <2>1 DEF Base, Mutex
<1>. QED
  BY <1>1, <1>2, <1>3, PTL DEF Spec

(***************************************************************************)
(* Docker holds one container of a task, the one its row names.  Between a *)
(* creation and the save of its id it is the copy of the request that      *)
(* names it, and every path from there saves the copy.                     *)
(***************************************************************************)
Has(d, t, k) == Exists(d, k) /\ d[k].task = t

\* Each container of the task is the one in its row.
Kept(t) == \A k \in Cids : Has(docker, t, k) => row[t] # NoRow /\ row[t].cid = k

\* The copy may name a container that the row does not.
Holding(c) == at[c] \in {"persistCreated", "markRestarting", "saveRecreated", "start", "ready",
                         "persistRunning", "fail"}

Keeping(c) ==
  /\ Holding(c) => \A k \in Cids : Has(docker, TaskOf(c), k) => job[c].row.cid = k
  /\ ~Holding(c) => Kept(TaskOf(c))
  /\ at[c] \notin RowFree /\ ~Holding(c) => job[c].row.cid = row[TaskOf(c)].cid
  /\ at[c] \in Pending /\ IsUpdate(c) => job[c].next.cid = job[c].row.cid
  /\ at[c] = "drop" => \A k \in Cids : ~Has(docker, TaskOf(c), k)

Custody ==
  /\ \A c \in Clients : Inside(c) => Keeping(c)
  /\ \A t \in Tasks : Kept(t) \/ \E c \in Clients : Inside(c) /\ TaskOf(c) = t

\* Of task t's containers, e has no others than d.
Shrinks(d, e, t) == \A k \in Cids : Has(e, t, k) => Has(d, t, k)

LEMMA OwnCopyNames ==
  ASSUME Custody, NEW c \in Clients, at[c] \notin RowFree, NEW k \in Cids,
         Has(docker, TaskOf(c), k)
  PROVE  job[c].row.cid = k
  BY DEF Custody, Keeping, Kept, Inside, RowFree

\* Docker's calls on containers that are there.
LEMMA CallsShrink ==
  ASSUME NEW d \in DockerStates, NEW k, NEW t
  PROVE  /\ Shrinks(d, d, t) /\ Shrinks(d, Stopped(d, k), t) /\ Shrinks(d, Gone(d, k), t)
         /\ \A e \in StartOutcomes(d, k) : Shrinks(d, e, t)
         /\ k \in Cids => ~Has(Gone(d, k), t, k)
<1>1. Shrinks(d, d, t)
  BY DEF Shrinks
<1>2. ASSUME Exists(d, k)
      PROVE  /\ Shrinks(d, [d EXCEPT ![k] = Removed], t)
             /\ \A a, s : Shrinks(d, [d EXCEPT ![k] = [@ EXCEPT !.state = s, !.addr = a]], t)
  <2>1. k \in Cids /\ d[k] \in Container
    BY <1>2 DEF Exists, DockerStates
  <2>2. \A a, s : [d[k] EXCEPT !.state = s, !.addr = a].task = d[k].task
    BY <2>1 DEF Container
  <2>. QED
    BY <1>2, <2>1, <2>2 DEF Shrinks, Has, Exists, DockerStates
<1>3. Shrinks(d, Stopped(d, k), t) /\ Shrinks(d, Gone(d, k), t)
  BY <1>1, <1>2 DEF Stopped, Gone
<1>4. \A e \in StartOutcomes(d, k) : Shrinks(d, e, t)
  <2>1. \A e \in StartOutcomes(d, k) :
          Exists(d, k) /\ (e = d \/ \E a : e = Started(d, k, a))
    BY DEF StartOutcomes
  <2>2. ASSUME NEW a, Exists(d, k)
        PROVE  Shrinks(d, Started(d, k, a), t)
    BY <1>2, <2>2 DEF Started
  <2>. QED
    BY <1>1, <2>1, <2>2
<1>5. k \in Cids => ~Has(Gone(d, k), t, k)
  BY DEF Gone, Has, Exists, DockerStates
<1>. QED
  BY <1>1, <1>3, <1>4, <1>5

\* Runtime.Create: the new container is the task's only one, and no other task's.
LEMMA CreationShrinks ==
  ASSUME NEW d \in DockerStates, NEW t \in Tasks
  PROVE  /\ \A e \in CreateFailures(d, t) : \A u : Shrinks(d, e, u)
         /\ \A k \in Cids, s \in Specs :
              /\ \A u : u # t => Shrinks(d, Created(d, k, t, s), u)
              /\ \A j \in Cids : Has(Created(d, k, t, s), t, j) => j = k
<1>1. \A j \in Cids : Reclaimed(d, t)[j] = d[j] \/ Reclaimed(d, t)[j] = Removed
  BY DEF Reclaimed
<1>2. \A j \in Cids : ~Has(Reclaimed(d, t), t, j)
  BY DEF Reclaimed, NameHolders, Has, Exists
<1>3. ASSUME NEW u
      PROVE  Shrinks(d, Reclaimed(d, t), u) /\ Shrinks(d, d, u)
  BY <1>1 DEF Shrinks, Has, Exists
<1>4. ASSUME NEW k \in Cids, NEW s \in Specs
      PROVE  /\ \A u : u # t => Shrinks(d, Created(d, k, t, s), u)
             /\ \A j \in Cids : Has(Created(d, k, t, s), t, j) => j = k
  <2>1. /\ \A j \in Cids \ {k} : Created(d, k, t, s)[j] = Reclaimed(d, t)[j]
        /\ Created(d, k, t, s)[k].task = t
    BY DEF Created, Reclaimed
  <2>. QED
    BY <1>2, <1>3, <2>1 DEF Shrinks, Has, Exists
<1>. QED
  BY <1>3, <1>4 DEF CreateFailures

\* A step inside the mutex, whose request has its own containers in order.
LEMMA WorkKeeps ==
  ASSUME Typed, Mutex, Custody, NEW c \in Clients, Inside(c), TaskOf(c)' = TaskOf(c),
         \A b \in Clients \ {c} : at'[b] = at[b] /\ job'[b] = job[b],
         \A u \in Tasks \ {TaskOf(c)} : row'[u] = row[u] /\ Shrinks(docker, docker', u),
         Keeping(c)', Inside(c)'
  PROVE  Custody'
<1>1. TaskOf(c) \in Tasks
  BY UnderWay DEF Inside
<1>2. \A u \in Tasks \ {TaskOf(c)} : Kept(u) => Kept(u)'
  BY DEF Kept, Shrinks
<1>3. ASSUME NEW b \in Clients \ {c}, Inside(b)
      PROVE  Keeping(b)'
  <2>1. TaskOf(b) \in Tasks \ {TaskOf(c)} /\ TaskOf(b)' = TaskOf(b)
    BY <1>3, Alone, UnderWay DEF Inside, TaskOf
  <2>2. at'[b] = at[b] /\ job'[b] = job[b] /\ row'[TaskOf(b)] = row[TaskOf(b)]
    BY <2>1
  <2>3. \A k \in Cids : Has(docker', TaskOf(b), k) => Has(docker, TaskOf(b), k)
    BY <2>1 DEF Shrinks
  <2>4. Keeping(b) /\ (Kept(TaskOf(b)) => Kept(TaskOf(b))')
    BY <1>2, <1>3, <2>1 DEF Custody, Kept
  <2>. QED
    BY <2>1, <2>2, <2>3, <2>4 DEF Keeping, Holding, Kept, IsUpdate, OpOf
<1>4. \A b \in Clients : Inside(b)' => Keeping(b)'
  BY <1>3 DEF Inside
<1>5. \A u \in Tasks : Kept(u)' \/ \E b \in Clients : Inside(b)' /\ TaskOf(b)' = u
  BY <1>2 DEF Custody, Inside, TaskOf
<1>. QED
  BY <1>4, <1>5 DEF Custody

\* tasks.Update: the id of the copy becomes that of the row.
LEMMA WriteKeeps ==
  ASSUME Typed, Mutex, Owned, Custody, Reliable, NEW c \in Clients,
         NEW label, label \notin RowFree, NEW r \in Row, r.cid = job[c].row.cid,
         NEW next, NEW failed, Persist(c, label, r, next, failed),
         next \in {"register", "done", "publish", "start", "recreate"}
  PROVE  Custody'
<1>. DEFINE t == TaskOf(c)
<1>1. /\ Inside(c) /\ t \in Tasks /\ job[c] \in Job /\ Go(c, next) /\ SetRow(c, r) /\ at[c] = label
      /\ row' = [row EXCEPT ![t] = r] /\ docker' = docker /\ r # NoRow
  BY PersistSucceeds, TaskDataAssumption DEF Reliable
<1>2. /\ at'[c] = next /\ job'[c].op = job[c].op /\ job'[c].task = job[c].task
      /\ job'[c].row = r /\ \A b \in Clients \ {c} : at'[b] = at[b] /\ job'[b] = job[b]
      /\ \A u \in Tasks : row'[u] = IF u = t THEN r ELSE row[u]
  BY <1>1 DEF Go, SetRow, Typed, Job
<1>3. \A k \in Cids : Has(docker, t, k) => r.cid = k
  BY <1>1, OwnCopyNames
<1>4. Keeping(c)'
  BY <1>1, <1>2, <1>3 DEF Keeping, Kept, TaskOf, Pending
<1>5. \A u : Shrinks(docker, docker', u)
  BY <1>1 DEF Shrinks
<1>. QED
  BY <1>1, <1>2, <1>4, <1>5, WorkKeeps DEF TaskOf, Inside

\* A step that leaves the row and the copies alone, and creates nothing.
LEMMA MoveKeeps ==
  ASSUME Typed, Mutex, Custody, NEW c \in Clients, Inside(c), UNCHANGED <<row, job>>,
         NEW label, Go(c, label), label \notin {"idle", "waiting"},
         label \notin RowFree => at[c] \notin RowFree, Holding(c) => Holding(c)',
         label \in Pending /\ IsUpdate(c) => at[c] \in Pending,
         \A u \in Tasks : Shrinks(docker, docker', u),
         label = "drop" => \A k \in Cids : ~Has(docker', TaskOf(c), k)
  PROVE  Custody'
<1>. DEFINE t == TaskOf(c)
<1>1. /\ at'[c] = label /\ \A b \in Clients \ {c} : at'[b] = at[b]
      /\ t \in Tasks /\ Keeping(c)
  BY UnderWay DEF Go, Typed, Inside, Custody
<1>2. \A k \in Cids : Has(docker', t, k) => Has(docker, t, k)
  BY <1>1 DEF Shrinks
<1>3. Keeping(c)'
  <2>1. Holding(c)' => at[c] \notin RowFree
    BY <1>1 DEF Holding, RowFree
  <2>2. Holding(c)' => \A k \in Cids : Has(docker', t, k) => job[c].row.cid = k
    BY <1>2, <2>1, OwnCopyNames
  <2>3. ~Holding(c)' => Kept(t)'
    BY <1>1, <1>2 DEF Keeping, Kept, TaskOf
  <2>. QED
    BY <1>1, <2>2, <2>3 DEF Keeping, Kept, TaskOf, IsUpdate, OpOf
<1>. QED
  BY <1>1, <1>3, WorkKeeps DEF TaskOf, Inside

LEMMA PersistActionsKeep ==
  ASSUME Typed, Mutex, Owned, Custody, Reliable, NEW c \in Clients,
         \/ PersistRunning(c) \/ FailTask(c) \/ PersistCreated(c) \/ MarkStarting(c)
         \/ PersistStopped(c) \/ MarkRestarting(c) \/ SaveMetadata(c) \/ SaveSpec(c)
         \/ SaveRecreated(c)
  PROVE  Custody'
<1>. DEFINE r == job[c].row
<1>1. at[c] \notin RowFree /\ r \in Row /\ Assigned(c)
  BY UnderWay
  DEF RowFree, Assigned, Persist, PersistRunning, FailTask, PersistCreated, MarkStarting,
      PersistStopped, MarkRestarting, SaveMetadata, SaveSpec, SaveRecreated
<1>2. ASSUME NEW q \in {r, [r EXCEPT !.status = "error"], [r EXCEPT !.status = "starting"],
                        [r EXCEPT !.status = "stopped", !.addr = NoAddr]}
      PROVE  q \in Row /\ q.cid = job[c].row.cid
  BY <1>1, <1>2 DEF Row, Statuses
<1>3. Returned(c) \in {"publish", "done"}
  BY DEF Returned
<1>4. CASE SaveSpec(c)
  <2>1. job[c].next \in Row /\ job[c].next.cid = job[c].row.cid
    BY <1>1, <1>4 DEF SaveSpec, Persist, Assigned, Custody, Keeping, Inside, Pending
  <2>. QED
    BY <1>3, <1>4, <2>1, WriteKeeps DEF SaveSpec, RowFree
<1>. HIDE DEF r
<1>5. CASE PersistRunning(c)
  BY <1>2, <1>5, WriteKeeps DEF PersistRunning, RowFree, r
<1>6. CASE FailTask(c)
  BY <1>2, <1>3, <1>6, WriteKeeps DEF FailTask, RowFree, r
<1>7. CASE PersistCreated(c)
  BY <1>2, <1>7, WriteKeeps DEF PersistCreated, RowFree, r
<1>8. CASE MarkStarting(c)
  BY <1>2, <1>8, WriteKeeps DEF MarkStarting, RowFree, r
<1>9. CASE PersistStopped(c)
  BY <1>2, <1>9, WriteKeeps DEF PersistStopped, RowFree, r
<1>10. CASE MarkRestarting(c)
  BY <1>2, <1>10, WriteKeeps DEF MarkRestarting, RowFree, r
<1>11. CASE SaveMetadata(c)
  BY <1>2, <1>3, <1>11, WriteKeeps DEF SaveMetadata, RowFree, r
<1>12. CASE SaveRecreated(c)
  BY <1>2, <1>3, <1>12, WriteKeeps DEF SaveRecreated, RowFree, r
<1>. QED
  BY <1>4, <1>5, <1>6, <1>7, <1>8, <1>9, <1>10, <1>11, <1>12

LEMMA MovesKeep ==
  ASSUME Typed, Mutex, Custody, Answered, Reliable, NEW c \in Clients,
         \/ Pull(c) \/ StopContainer(c) \/ StartContainer(c) \/ UndoCreate(c)
         \/ InspectForDelete(c) \/ RemoveContainer(c)
         \/ Unregister(c) \/ Register(c) \/ Clear(c) \/ Publish(c)
         \/ Refuse(c) \/ DeployAgain(c)
  PROVE  Custody'
<1>. DEFINE old == job[c].row.cid
<1>1. Inside(c) /\ UNCHANGED <<row, job>>
  BY DEF Inside, Pull, StopContainer, StartContainer, UndoCreate, InspectForDelete,
         RemoveContainer, Unregister, Register, Clear, Publish, Refuse, DeployAgain, Reads,
         OnlyMoves, OnlyDocker, OnlyRegistry
<1>2. Assigned(c) /\ at[c] # "undo" /\ docker \in DockerStates
  BY <1>1, UnderWay DEF Inside, Typed, Answered, Promises
<1>3. /\ \A u : /\ Shrinks(docker, docker, u) /\ Shrinks(docker, Stopped(docker, old), u)
                /\ Shrinks(docker, Gone(docker, old), u)
                /\ \A e \in StartOutcomes(docker, old) : Shrinks(docker, e, u)
      /\ at[c] \notin RowFree => \A k \in Cids : ~Has(Gone(docker, old), TaskOf(c), k)
  <2>1. ASSUME at[c] \notin RowFree, NEW k \in Cids, Has(Gone(docker, old), TaskOf(c), k)
        PROVE  FALSE
    <3>1. Shrinks(docker, Gone(docker, old), TaskOf(c))
      BY <1>2, CallsShrink
    <3>2. old = k
      BY <2>1, <3>1, OwnCopyNames DEF Shrinks
    <3>. QED
      BY <1>2, <2>1, <3>2, CallsShrink
  <2>. QED
    BY <1>2, <2>1, CallsShrink
<1>. HIDE DEF old
<1>4. CASE Pull(c) \/ Refuse(c) \/ DeployAgain(c)
  <2>1. PICK label \in {"create", "fail", "unregister", "stop", "saveSpec", "done"} :
          Go(c, label) /\ (label # "done" => at[c] = "pull")
    BY <1>4 DEF Pull, Refuse, DeployAgain
  <2>2. docker' = docker /\ ~Holding(c)
    BY <1>4 DEF Pull, Refuse, DeployAgain, Reads, OnlyMoves, Holding
  <2>. QED
    BY <1>1, <1>3, <2>1, <2>2, MoveKeeps DEF RowFree, Pending
<1>5. CASE StopContainer(c)
  <2>1. PICK label \in {"done", "fail", "remove", "unregister"} : Go(c, label)
    BY <1>5 DEF StopContainer
  <2>2. docker' \in {docker, Stopped(docker, old)} /\ at[c] = "stop"
    BY <1>5 DEF StopContainer, old
  <2>. QED
    BY <1>1, <1>3, <2>1, <2>2, MoveKeeps DEF RowFree, Pending, Holding
<1>6. CASE StartContainer(c)
  <2>1. PICK label \in {"ready", "fail"} : Go(c, label) /\ at'[c] = label
    BY <1>6 DEF StartContainer, Go, Typed
  <2>2. docker' \in {docker} \cup StartOutcomes(docker, old) /\ at[c] = "start"
    BY <1>6 DEF StartContainer, old
  <2>. QED
    BY <1>1, <1>3, <2>1, <2>2, MoveKeeps DEF RowFree, Pending, Holding
<1>7. CASE InspectForDelete(c)
  <2>1. PICK label \in {"stop", "remove"} : Go(c, label)
    BY <1>7 DEF InspectForDelete
  <2>2. docker' = docker /\ at[c] = "inspect" /\ ~IsUpdate(c)
    BY <1>2, <1>7 DEF InspectForDelete, OnlyMoves, Assigned, IsUpdate
  <2>. QED
    BY <1>1, <1>3, <2>1, <2>2, MoveKeeps DEF RowFree, Pending, Holding
<1>8. CASE RemoveContainer(c)
  <2>1. PICK label \in {"drop", "done"} :
          Go(c, label) /\ (label = "drop" => docker' = Gone(docker, old))
    BY <1>8 DEF RemoveContainer, old
  <2>2. docker' \in {docker, Gone(docker, old)} /\ at[c] = "remove" /\ at[c] \notin RowFree
    BY <1>8 DEF RemoveContainer, old, RowFree
  <2>. QED
    BY <1>1, <1>3, <2>1, <2>2, MoveKeeps DEF Pending, Holding
<1>9. CASE Clear(c)
  <2>1. PICK label \in {"drop", "inspect"} : Go(c, label) /\ (label = "drop" => old = NoCid)
    BY <1>9 DEF Clear, old
  <2>2. docker' = docker /\ at[c] = "clear" /\ at[c] \notin RowFree
    BY <1>9 DEF Clear, OnlyRegistry, RowFree
  <2>3. old = NoCid => \A k \in Cids : ~Has(docker, TaskOf(c), k)
    BY <2>2, OwnCopyNames, TaskDataAssumption DEF old
  <2>. QED
    BY <1>1, <1>3, <2>1, <2>2, <2>3, MoveKeeps DEF Pending, Holding
<1>10. CASE Unregister(c) \/ Register(c) \/ Publish(c)
  <2>1. PICK label \in {"persistStopped", "recreate", "saveSpec", "publish", "done"} :
          Go(c, label) /\ (label = "saveSpec" => at[c] = "unregister")
    BY <1>10 DEF Unregister, Register, Publish, Returned
  <2>2. docker' = docker /\ at[c] \in {"unregister", "register", "publish"} /\ at[c] \notin RowFree
    BY <1>10 DEF Unregister, Register, Publish, OnlyRegistry, RowFree
  <2>. QED
    BY <1>1, <1>3, <2>1, <2>2, MoveKeeps DEF Pending, Holding
<1>. QED
  BY <1>2, <1>4, <1>5, <1>6, <1>7, <1>8, <1>9, <1>10 DEF UndoCreate

LEMMA ContainerChangesKeep ==
  ASSUME Typed, Mutex, Custody, Reliable, NEW c \in Clients,
         RecreateContainer(c) \/ CreateContainer(c) \/ AwaitReady(c)
  PROVE  Custody'
<1>. DEFINE t == TaskOf(c)
            r == job[c].row
            gone == Gone(docker, r.cid)
            fresh == {k \in Cids : docker[k] = Unused}
<1>1. /\ at[c] \notin RowFree /\ Inside(c) /\ r \in Row /\ row' = row
      /\ job[c] \in Job /\ t \in Tasks /\ docker \in DockerStates
  BY UnderWay
  DEF RowFree, Inside, Assigned, RecreateContainer, CreateContainer, AwaitReady, OnlyDocker,
      OnlyMoves, process, Typed
<1>2. r.spec \in Specs /\ gone \in DockerStates
  BY <1>1, GoneEvolves DEF Row
<1>3. \A u : Shrinks(docker, docker, u) /\ Shrinks(docker, Stopped(docker, r.cid), u) /\ Shrinks(docker, gone, u)
  BY <1>1, CallsShrink
<1>4. ASSUME Go(c, "fail"), UNCHANGED job, \A u \in Tasks : Shrinks(docker, docker', u)
      PROVE  Custody'
  <2>1. Holding(c)'
    BY <1>4 DEF Go, Typed, Holding
  <2>. QED
    BY <1>1, <1>4, <2>1, MoveKeeps DEF Pending
\* A new copy of the row that names k, at a label from which it is saved.
<1>5. ASSUME NEW label, Go(c, label), NEW q, SetRow(c, q),
             label \in {"persistCreated", "markRestarting", "saveRecreated", "start", "persistRunning"},
             \A k \in Cids : Has(docker', t, k) => q.cid = k,
             \A u \in Tasks \ {t} : Shrinks(docker, docker', u)
      PROVE  Custody'
  <2>1. /\ at'[c] = label /\ job'[c].task = job[c].task /\ job'[c].row = q
        /\ \A b \in Clients \ {c} : at'[b] = at[b] /\ job'[b] = job[b]
    BY <1>1, <1>5 DEF Go, SetRow, Typed, Job
  <2>2. Keeping(c)'
    BY <1>5, <2>1 DEF Keeping, Holding, Pending, TaskOf
  <2>. QED
    BY <1>1, <1>5, <2>1, <2>2, WorkKeeps DEF TaskOf, Inside
<1>6. ASSUME NEW d \in {docker, gone}, NEW k \in Cids, docker' = Created(d, k, t, r.spec)
      PROVE  /\ \A j \in Cids : Has(docker', t, j) => k = j
             /\ \A u \in Tasks \ {t} : Shrinks(docker, docker', u)
  BY <1>1, <1>2, <1>3, <1>6, CreationShrinks DEF Shrinks
<1>7. ASSUME NEW d \in {docker, gone}, docker' \in CreateFailures(d, t)
      PROVE  \A u \in Tasks : Shrinks(docker, docker', u)
  BY <1>1, <1>2, <1>3, <1>7, CreationShrinks DEF Shrinks
<1>. HIDE DEF gone
<1>8. ASSUME RecreateContainer(c)
      PROVE  Custody'
  <2>1. AfterCreation(c) \in {"markRestarting", "saveRecreated", "start"}
    BY DEF AfterCreation
  <2>2. ASSUME NEW k \in fresh, docker' = Created(gone, k, t, r.spec),
               SetRow(c, [r EXCEPT !.cid = k, !.pending = FALSE]), Go(c, AfterCreation(c))
        PROVE  Custody'
    <3>1. PICK q : q = [r EXCEPT !.cid = k, !.pending = FALSE]
      OBVIOUS
    <3>2. q.cid = k
      BY <1>1, <3>1 DEF Row
    <3>3. SetRow(c, q)
      BY <2>2, <3>1
    <3>. QED
      BY <1>5, <1>6, <2>1, <2>2, <3>2, <3>3
  <2>3. \/ \E k \in fresh : /\ docker' = Created(gone, k, t, r.spec)
                            /\ SetRow(c, [r EXCEPT !.cid = k, !.pending = FALSE])
                            /\ Go(c, AfterCreation(c))
        \/ /\ Go(c, "fail") /\ UNCHANGED job
           /\ docker' \in {docker, Stopped(docker, r.cid), gone} \cup CreateFailures(gone, t)
    BY <1>8, Zenon DEF RecreateContainer, Reliable, gone
  <2>. QED
    BY <1>3, <1>4, <1>7, <2>2, <2>3
<1>9. ASSUME CreateContainer(c)
      PROVE  Custody'
  <2>2. ASSUME NEW k \in fresh, docker' = Created(docker, k, t, r.spec),
               SetRow(c, [r EXCEPT !.cid = k, !.status = "starting"]), Go(c, "persistCreated")
        PROVE  Custody'
    <3>1. PICK q : q = [r EXCEPT !.cid = k, !.status = "starting"]
      OBVIOUS
    <3>2. q.cid = k
      BY <1>1, <3>1 DEF Row
    <3>3. SetRow(c, q)
      BY <2>2, <3>1
    <3>. QED
      BY <1>5, <1>6, <2>2, <3>2, <3>3
  <2>3. \/ \E k \in fresh : /\ docker' = Created(docker, k, t, r.spec)
                            /\ SetRow(c, [r EXCEPT !.cid = k, !.status = "starting"])
                            /\ Go(c, "persistCreated")
        \/ /\ Go(c, "fail") /\ UNCHANGED job
           /\ docker' \in {docker} \cup CreateFailures(docker, t)
    BY <1>9, Zenon DEF CreateContainer, Reliable
  <2>. QED
    BY <1>3, <1>4, <1>7, <2>2, <2>3
<1>10. ASSUME AwaitReady(c)
      PROVE  Custody'
  <2>1. docker' = docker
    BY <1>10 DEF AwaitReady, OnlyMoves
  <2>2. \/ Go(c, "fail") /\ UNCHANGED job
        \/ (\E q : SetRow(c, q) /\ q.cid = r.cid) /\ Go(c, "persistRunning")
    <3>1. \A a : [r EXCEPT !.status = "running", !.pending = FALSE, !.addr = a].cid = r.cid
      BY <1>1 DEF Row
    <3>2. \/ Go(c, "fail") /\ UNCHANGED job
          \/ /\ \E a : SetRow(c, [r EXCEPT !.status = "running", !.pending = FALSE, !.addr = a])
             /\ Go(c, "persistRunning")
      BY <1>10, Zenon DEF AwaitReady
    <3>. QED
      BY <3>1, <3>2, Zenon
  <2>3. \A k \in Cids : Has(docker, t, k) => r.cid = k
    BY <1>1, OwnCopyNames
  <2>. QED
    BY <1>3, <1>4, <1>5, <2>1, <2>2, <2>3
<1>. QED
  BY <1>8, <1>9, <1>10

\* The read an operation begins with: the copies name what the row does.
LEMMA BeginKeeps ==
  ASSUME Typed, Mutex, Custody, NEW c \in Clients, Reads(c, OpOf(c)), OnlyMoves,
         NEW label, Go(c, label), NEW r, NEW next, NEW recreate, Begin(c, r, next, recreate),
         label \in {"done", "markStarting", "unregister", "stop", "pull", "clear", "save", "saveSpec"},
         r.cid = row[TaskOf(c)].cid,
         IsUpdate(c) /\ label \in Pending => next.cid = r.cid
  PROVE  Custody'
<1>. DEFINE new == [job[c] EXCEPT !.row = r, !.was = row[TaskOf(c)],
                                  !.next = next, !.recreate = recreate]
<1>1. /\ Inside(c) /\ job[c] \in Job /\ UNCHANGED <<row, docker>> /\ ~Holding(c)
  BY UnderWay DEF Reads, Inside, OnlyMoves, Holding
<1>2. /\ new.op = job[c].op /\ new.task = job[c].task /\ new.row = r /\ new.next = next
  BY <1>1 DEF Job
<1>3. job' = [job EXCEPT ![c] = new]
  BY DEF Begin
<1>. HIDE DEF new
<1>4. /\ job'[c] = new /\ at'[c] = label
      /\ \A b \in Clients \ {c} : at'[b] = at[b] /\ job'[b] = job[b]
  BY <1>3 DEF Typed, Go
<1>5. Kept(TaskOf(c)) /\ (Kept(TaskOf(c)) => Kept(TaskOf(c))')
  BY <1>1, <1>2, <1>4 DEF Custody, Keeping, Kept, TaskOf
<1>6. Keeping(c)' /\ \A u : Shrinks(docker, docker', u)
  BY <1>1, <1>2, <1>4, <1>5 DEF Keeping, Holding, IsUpdate, OpOf, TaskOf, Shrinks
<1>. QED
  BY <1>1, <1>2, <1>4, <1>6, WorkKeeps DEF TaskOf, Inside

LEMMA ReadsKeep ==
  ASSUME Typed, Mutex, Custody, NEW c \in Clients,
         BeginStart(c) \/ BeginStop(c) \/ BeginRestart(c) \/ BeginDelete(c)
  PROVE  Custody'
<1>. DEFINE r == row[TaskOf(c)]
            q == [r EXCEPT !.status = "starting"]
<1>1. Reads(c, OpOf(c)) /\ OnlyMoves /\ ~IsUpdate(c)
  BY DEF Reads, BeginStart, BeginStop, BeginRestart, BeginDelete, IsUpdate
<1>2. r \in Row
  BY <1>1, UnderWay DEF Reads, Typed
<1>3. q.cid = r.cid
  BY <1>2 DEF Row
<1>4. PICK label \in {"markStarting", "unregister", "stop", "pull", "clear"}, p \in {q, r} :
        Go(c, label) /\ Begin(c, p, NoRow, FALSE)
  BY DEF BeginStart, BeginStop, BeginRestart, BeginDelete
<1>. HIDE DEF q, r
<1>. QED
  BY <1>1, <1>3, <1>4, BeginKeeps DEF r

LEMMA EditKeeps ==
  ASSUME Typed, Mutex, Custody, NEW c \in Clients, BeginUpdate(c) \/ BeginDeploy(c)
  PROVE  Custody'
<1>. DEFINE r == row[TaskOf(c)]
<1>1. Reads(c, OpOf(c)) /\ OnlyMoves /\ r \in Row
  BY UnderWay DEF Reads, BeginUpdate, BeginDeploy, Typed
<1>2. PICK want, routes, hash, recreate : EditTask(c, want, routes, hash, recreate)
  BY Zenon DEF BeginUpdate, BeginDeploy
<1>. DEFINE edited == [r EXCEPT !.routes = routes, !.hash = hash]
            wanted == WithSpec(edited, want)
<1>3. edited.cid = r.cid /\ wanted.cid = r.cid
  BY <1>1 DEF Row, WithSpec
<1>4. \/ /\ Begin(c, edited, NoRow, recreate)
         /\ Go(c, "done") \/ Go(c, "save")
      \/ /\ Begin(c, edited, wanted, recreate)
         /\ Go(c, "pull") \/ Go(c, "stop") \/ Go(c, "saveSpec")
  <2>1. CASE Begin(c, edited, NoRow, recreate)
             /\ Go(c, IF edited = r THEN "done" ELSE "save")
    BY <2>1
  <2>2. CASE /\ Begin(c, edited, wanted, recreate)
             /\ Go(c, CASE recreate /\ want.image # r.spec.image -> "pull"
                        [] r.status = "running"                  -> "stop"
                        [] OTHER                                 -> "saveSpec")
    BY <2>2
  <2>. QED
    BY <1>2, <2>1, <2>2 DEF EditTask
<1>. HIDE DEF edited, wanted
<1>. QED
  BY <1>1, <1>3, <1>4, BeginKeeps DEF Pending

\* A new row finds no container of its task, and a row that goes leaves none.
LEMMA RowsKeep ==
  ASSUME Typed, Mutex, Custody, Reliable, NEW c \in Clients, Reserve(c) \/ DropRow(c)
  PROVE  Custody'
<1>. DEFINE t == TaskOf(c)
<1>1. /\ Inside(c) /\ job[c] \in Job /\ t \in Tasks /\ Assigned(c) /\ docker' = docker
      /\ \A u : Shrinks(docker, docker', u)
  BY UnderWay DEF Reserve, DropRow, Inside, Shrinks
<1>2. CASE Reserve(c)
  <2>1. PICK r : /\ SetRow(c, r) /\ Go(c, "pull") /\ row' = [row EXCEPT ![t] = r]
                 /\ \E spec : r = [status |-> "creating", spec |-> spec, cid |-> NoCid,
                                  addr |-> NoAddr, pending |-> FALSE,
                                  routes |-> NoRoutes, hash |-> NoHash]
    BY <1>2 DEF Reserve, Reliable
  <2>2. r.cid = NoCid
    BY <2>1
  <2>3. OpOf(c) = "create" /\ row[t] = NoRow /\ ~Holding(c)
    BY <1>1, <1>2 DEF Reserve, Assigned, NameTaken, Holding
  <2>4. /\ at'[c] = "pull" /\ job'[c].op = job[c].op /\ job'[c].task = job[c].task
        /\ job'[c].row = r
        /\ \A b \in Clients \ {c} : at'[b] = at[b] /\ job'[b] = job[b]
        /\ \A u \in Tasks : row'[u] = IF u = t THEN r ELSE row[u]
    BY <1>1, <2>1 DEF Go, SetRow, Typed, Job
  <2>5. \A k \in Cids : ~Has(docker, t, k)
    BY <1>1, <2>3 DEF Custody, Keeping, Kept
  <2>6. Keeping(c)'
    BY <1>1, <2>2, <2>3, <2>4, <2>5 DEF Keeping, Kept, Holding, IsUpdate, OpOf, TaskOf
  <2>. QED
    BY <1>1, <2>4, <2>6, WorkKeeps DEF TaskOf, Inside
<1>3. CASE DropRow(c)
  <2>1. Go(c, "done") /\ UNCHANGED job /\ row' = [row EXCEPT ![t] = NoRow] /\ at[c] = "drop"
    BY <1>3 DEF DropRow, Reliable
  <2>2. /\ at'[c] = "done" /\ \A b \in Clients \ {c} : at'[b] = at[b]
        /\ \A u \in Tasks : row'[u] = IF u = t THEN NoRow ELSE row[u]
    BY <1>1, <2>1 DEF Go, Typed
  <2>3. \A k \in Cids : ~Has(docker, t, k)
    BY <1>1, <2>1 DEF Custody, Keeping
  <2>4. Keeping(c)'
    BY <1>1, <2>1, <2>2, <2>3 DEF Keeping, Kept, Holding, RowFree, Pending, TaskOf
  <2>. QED
    BY <1>1, <2>1, <2>2, <2>4, WorkKeeps DEF TaskOf, Inside
<1>. QED
  BY <1>2, <1>3

LEMMA AdmissionKeeps ==
  ASSUME Typed, Mutex, Custody, NEW c \in Clients, Request(c) \/ Enter(c) \/ Unlock(c)
  PROVE  Custody'
<1>1. /\ UNCHANGED <<row, docker>> /\ \A b \in Clients \ {c} : at'[b] = at[b] /\ job'[b] = job[b]
      /\ at'[c] \in RowFree
  BY DEF Request, Enter, Unlock, OnlyMoves, Go, Typed, RowFree
<1>2. ASSUME NEW b \in Clients \ {c}, Inside(b)
      PROVE  Keeping(b)' /\ TaskOf(b)' = TaskOf(b) /\ Inside(b)'
  BY <1>1, <1>2 DEF Custody, Keeping, Kept, Holding, IsUpdate, OpOf, TaskOf, Inside
<1>3. Inside(c)' => Keeping(c)'
  <2>1. Inside(c)' => TaskOf(c)' = TaskOf(c) /\ Enter(c)
    BY DEF Request, Enter, Unlock, Inside, Go, Typed, TaskOf
  <2>2. ASSUME Enter(c)
        PROVE  Kept(TaskOf(c))
    <3>1. TaskOf(c) \in Tasks /\ holder[TaskOf(c)] = {}
      BY <2>2, UnderWay DEF Enter
    <3>. QED
      BY <3>1 DEF Custody, Mutex
  <2>. QED
    BY <1>1, <2>1, <2>2 DEF Keeping, Kept, Holding, RowFree, Pending
<1>4. ASSUME NEW u \in Tasks
      PROVE  Kept(u)' \/ \E b \in Clients : Inside(b)' /\ TaskOf(b)' = u
  <2>1. Kept(u) => Kept(u)'
    BY <1>1 DEF Kept
  <2>2. ASSUME Inside(c), TaskOf(c) = u
        PROVE  Kept(u)
    BY <2>2 DEF Request, Enter, Unlock, Inside, Custody, Keeping, Holding
  <2>. QED
    BY <1>2, <2>1, <2>2 DEF Custody
<1>. QED
  BY <1>1, <1>2, <1>3, <1>4 DEF Custody, Inside

\* Containers that exit, revive or are taken away, and the one start of Boreas.
LEMMA ProcessKeeps ==
  ASSUME Typed, Custody, Answered, Reliable,
         \/ Crash \/ Startup
         \/ \E k \in Cids : Exit(k) \/ Revive(k) \/ Interfere(k)
  PROVE  Custody'
<1>1. ~Crash
  BY DEF Crash, Reliable
<1>2. ASSUME NEW t \in Tasks
      PROVE  ~ReconcileTask(t) /\ ~ReconcileSave(t)
  BY TaskDataAssumption DEF ReconcileTask, ReconcileSave, Saving, Typed, BootAlone, Answered
<1>3. UNCHANGED <<row, at, job>>
  BY <1>1, <1>2 DEF Startup, Boot, Listen, Exit, Revive, Interfere, Others, process
<1>4. ASSUME NEW u
      PROVE  Shrinks(docker, docker', u)
  <2>1. docker \in DockerStates
    BY DEF Typed
  <2>2. CASE Startup
    BY <1>2, <2>2 DEF Startup, Boot, Listen, Shrinks
  <2>3. ASSUME NEW k \in Cids, Revive(k) \/ Interfere(k)
        PROVE  Shrinks(docker, docker', u)
    BY <2>1, <2>3, CallsShrink DEF Revive, Interfere
  <2>4. ASSUME NEW k \in Cids, Exit(k)
        PROVE  Shrinks(docker, docker', u)
    <3>1. docker[k] \in Container /\ docker' = [docker EXCEPT ![k] = [@ EXCEPT !.state = "restarting", !.addr = NoAddr]]
      BY <2>1, <2>4 DEF Exit, IsRunning, Exists, DockerStates
    <3>2. [docker[k] EXCEPT !.state = "restarting", !.addr = NoAddr].task = docker[k].task
      BY <3>1 DEF Container
    <3>. QED
      BY <2>1, <2>4, <3>1, <3>2 DEF Shrinks, Has, Exists, DockerStates, Exit, IsRunning
  <2>. QED
    BY <1>1, <2>2, <2>3, <2>4
<1>5. \A b \in Clients : Inside(b)' => Inside(b) /\ Keeping(b)' /\ TaskOf(b)' = TaskOf(b)
  BY <1>3, <1>4 DEF Custody, Keeping, Kept, Holding, IsUpdate, OpOf, TaskOf, Inside, Shrinks
<1>6. \A u \in Tasks : Kept(u) => Kept(u)'
  BY <1>3, <1>4 DEF Kept, Shrinks
<1>. QED
  BY <1>3, <1>5, <1>6 DEF Custody, Inside, TaskOf

LEMMA NextKeeps ==
  ASSUME Typed, Mutex, Owned, Answered, Custody, Reliable, [Next]_vars
  PROVE  Custody'
<1>1. ASSUME NEW c \in Clients, Step(c)
      PROVE  Custody'
  BY <1>1, AdmissionKeeps, PersistActionsKeep, MovesKeep, ContainerChangesKeep, ReadsKeep,
     EditKeeps, RowsKeep DEF Step
<1>2. CASE UNCHANGED vars
  BY <1>2 DEF vars, Custody, Keeping, Kept, Holding, Inside, TaskOf, OpOf, IsUpdate
<1>. QED
  BY <1>1, <1>2, AdmissionKeeps, ProcessKeeps DEF Next

\* No container outlives its record: between requests each container with a task's
\* labels is the one its row names, so Delete finds all there is to remove, whichever
\* Docker calls fail and whatever happens to the containers, as long as the saves of
\* new ids work and Boreas stays up.
THEOREM ContainersRecorded == Reliable => (Spec => []NoOrphanContainers)
<1>. SUFFICES ASSUME Reliable
              PROVE  Spec => []NoOrphanContainers
  OBVIOUS
<1>1. Init => Base /\ Answered /\ Custody
  <2>1. Init => Custody
    BY DEF Init, Custody, Kept, Has, Exists, Inside
  <2>. QED
    BY <2>1, InitBase DEF Init, Answered, Promises, RowFree, Pending
<1>2. Base /\ Answered /\ Custody /\ [Next]_vars => (Base /\ Answered /\ Custody)'
  BY NextBase, NextAnswers, NextKeeps DEF Base
<1>3. Base /\ Custody => NoOrphanContainers
  BY DEF Base, Custody, Mutex, Kept, Has, NoOrphanContainers, Quiet
<1>. QED
  BY <1>1, <1>2, <1>3, PTL DEF Spec

(***************************************************************************)
(* The proxy and the table agree.  An operation takes the hop down right   *)
(* before or after it stops the container, and puts it up last, with what  *)
(* it saved.                                                               *)
(* The routes and the password are those the row had until an Update that  *)
(* saved others publishes them; Reconcile rebuilds all three.              *)
(***************************************************************************)
\* Pulls fail, containers are late, Boreas crashes: all else works.
Patient == Faults \subseteq {"pull", "ready", "crash"}

Serves(t, r) == site[SiteOf[t]].routes = r.routes /\ site[SiteOf[t]].lock = r.hash

Down(t) == site[SiteOf[t]].task = NoHop

\* The container the row names runs at the row's address.
Up(r) == IsRunning(docker, r.cid) /\ docker[r.cid].addr = r.addr

Sends(t, r) ==
  /\ r.status = "running" => /\ site[SiteOf[t]].task = [addr |-> r.addr, conf |-> r.spec.conf]
                             /\ Up(r)
  /\ r.status # "running" => Down(t)

Mirrors(t, r) == Serves(t, r) /\ Sends(t, r)

\* Without "exit" no container waits for the restart policy.
Calm(d) == \A k \in Cids : Exists(d, k) =>
             d[k].state # "restarting" /\ (d[k].state = "running" => d[k].addr # NoAddr)

\* The hop is down, whatever the row still says.
Lapsed(c) == at[c] \in {"create", "persistCreated", "recreate", "markRestarting", "start", "ready",
                        "persistRunning", "register", "saveRecreated", "saveSpec",
                        "persistStopped", "fail"}

\* What the proxy has for the task of request c, which is past its read.
Tuned(c) ==
  /\ ~Withdrawn(c) /\ OpOf(c) = "update" => Serves(TaskOf(c), job[c].was)
  /\ ~Withdrawn(c) /\ OpOf(c) # "update" => Serves(TaskOf(c), row[TaskOf(c)])
  /\ at[c] = "publish" => Alike(row[TaskOf(c)], job[c].row)
  /\ Lapsed(c) => Down(TaskOf(c))
  /\ ~Lapsed(c) /\ ~Withdrawn(c) /\ at[c] # "unregister" => Sends(TaskOf(c), row[TaskOf(c)])

\* What its copies say of the row and of the container.
Prepared(c) ==
  /\ at[c] # "undo"
  /\ at[c] = "markStarting" => OpOf(c) = "start" /\ row[TaskOf(c)].status # "running"
  /\ at[c] = "persistStopped" => OpOf(c) = "stop"
  /\ at[c] = "pull" /\ OpOf(c) = "create" => row[TaskOf(c)].status # "running"
  /\ at[c] = "pull" /\ IsUpdate(c) => job[c].was = row[TaskOf(c)]
  /\ at[c] \in {"persistRunning", "register"} => job[c].row.status = "running" /\ Up(job[c].row)
  /\ at[c] = "register" => row[TaskOf(c)] = job[c].row
  /\ at[c] = "recreate" /\ IsUpdate(c) => job[c].row.status # "running"
  /\ at[c] = "saveRecreated" => IsUpdate(c) /\ job[c].row.status # "running"
  /\ at[c] \in Pending /\ IsUpdate(c) => job[c].next.status # "running"
  /\ at[c] = "save" => /\ job[c].row.status = row[TaskOf(c)].status
                       /\ job[c].row.cid = row[TaskOf(c)].cid
                       /\ job[c].row.addr = row[TaskOf(c)].addr
                       /\ job[c].row.spec = row[TaskOf(c)].spec
  /\ at[c] \in {"pull", "stop"} /\ OpOf(c) # "delete" => job[c].row.cid = row[TaskOf(c)].cid
  /\ at[c] = "stop" /\ OpOf(c) = "delete" => Exists(docker, job[c].row.cid)

Good(c) ==
  /\ at[c] \notin RowFree => Tuned(c) /\ Prepared(c)
  /\ at[c] \in RowFree /\ row[TaskOf(c)] # NoRow => Mirrors(TaskOf(c), row[TaskOf(c)])

\* Reconcile's latest word on a task.
Checked(t) == IF repaired[t] = NoRow THEN row[t] ELSE repaired[t]

Mirrored ==
  /\ Calm(docker)
  /\ \A c \in Clients : Inside(c) => Good(c)
  /\ phase = "up" => \A t \in Tasks : row[t] # NoRow =>
       Mirrors(t, row[t]) \/ \E c \in Clients : Inside(c) /\ TaskOf(c) = t
  /\ phase = "boot" => \A t \in Tasks : row[t] # NoRow /\ t \notin todo => Mirrors(t, Checked(t))

\* A container of task u, and what a row of u's says of it, is no other request's business.
LEMMA SparedStaysUp ==
  ASSUME NEW u \in Tasks, NEW t \in Tasks, u # t, NEW r, r # NoRow, Tracks(docker, r, u),
         Spares(docker, docker', t), r.cid \in Cids \cup {NoCid}, Exists(docker, r.cid)
  PROVE  docker'[r.cid] = docker[r.cid] /\ Exists(docker', r.cid) /\ (Up(r) => Up(r)')
<1>1. r.cid \in Cids /\ docker[r.cid].task = u
  BY TaskDataAssumption DEF Tracks, Exists
<1>2. docker'[r.cid] = docker[r.cid]
  BY <1>1 DEF Spares
<1>. QED
  BY <1>2 DEF Exists, Up, IsRunning

\* A step inside the mutex, after which the proxy has the right things for its task.
LEMMA WorkMirrors ==
  ASSUME Base, Mirrored, NEW c \in Clients, Inside(c), UNCHANGED process, TaskOf(c)' = TaskOf(c),
         \A b \in Clients \ {c} : at'[b] = at[b] /\ job'[b] = job[b],
         \A u \in Tasks \ {TaskOf(c)} : row'[u] = row[u],
         \/ site' = site
         \/ /\ at[c] \notin RowFree
            /\ \A s \in Sites \ {SiteOf[TaskOf(c)]} : site'[s] = site[s],
         Spares(docker, docker', TaskOf(c)), Calm(docker'), Good(c)', Inside(c)'
  PROVE  Mirrored'
<1>1. TaskOf(c) \in Tasks /\ phase' = "up" /\ SiteOf \in [Tasks -> Sites]
  BY UnderWay, RegistryAssumption DEF Base, Inside, process
<1>2. ASSUME NEW u \in Tasks \ {TaskOf(c)}, row[u] # NoRow
      PROVE  site'[SiteOf[u]] = site[SiteOf[u]]
  BY <1>1, <1>2 DEF Base, Owned
<1>3. ASSUME NEW u \in Tasks \ {TaskOf(c)}, row[u] # NoRow, NEW r \in Row, Tracks(docker, r, u)
      PROVE  /\ Serves(u, r) => Serves(u, r)'
             /\ Down(u) => Down(u)'
             /\ Sends(u, r) => Sends(u, r)'
             /\ Up(r) => Up(r)'
             /\ Exists(docker, r.cid) => Exists(docker', r.cid)
  <2>1. r # NoRow /\ r.cid \in Cids \cup {NoCid}
    BY TaskDataAssumption DEF Row
  <2>2. Exists(docker, r.cid) => Exists(docker', r.cid) /\ (Up(r) => Up(r)')
    BY <1>1, <1>3, <2>1, SparedStaysUp
  <2>3. Up(r) => Up(r)'
    BY <2>2 DEF Up, IsRunning
  <2>4. site'[SiteOf[u]] = site[SiteOf[u]]
    BY <1>2, <1>3
  <2>. QED
    BY <2>2, <2>3, <2>4 DEF Serves, Down, Sends
<1>4. ASSUME NEW u \in Tasks \ {TaskOf(c)}, row[u] # NoRow
      PROVE  row[u] \in Row /\ row'[u] = row[u] /\ Tracks(docker, row[u], u)
  BY <1>4 DEF Base, Typed, Tracking, PendingTracksSpec
<1>5. ASSUME NEW b \in Clients \ {c}, Inside(b)
      PROVE  Good(b)'
  <2>. DEFINE u == TaskOf(b)
  <2>1. /\ u \in Tasks \ {TaskOf(c)} /\ TaskOf(b)' = u /\ OpOf(b)' = OpOf(b)
        /\ at'[b] = at[b] /\ job'[b] = job[b] /\ row'[u] = row[u] /\ Good(b)
    BY <1>5, Alone, UnderWay DEF Base, Inside, TaskOf, OpOf, Mirrored
  <2>2. CASE at[b] \in RowFree
    <3>1. row[u] # NoRow => Mirrors(u, row[u]) /\ row[u] \in Row /\ Tracks(docker, row[u], u)
      BY <1>4, <2>1, <2>2 DEF Good
    <3>2. PICK r : r = row[u]
      OBVIOUS
    <3>3. row[u] # NoRow => Mirrors(u, r)'
      BY <1>3, <2>1, <3>1, <3>2 DEF Mirrors
    <3>. QED
      BY <2>1, <2>2, <3>2, <3>3 DEF Good
  <2>3. CASE at[b] \notin RowFree
    <3>1. row[u] # NoRow /\ row[u] \in Row /\ Tracks(docker, row[u], u)
      BY <1>4, <2>1, <2>3 DEF Base, Owned
    <3>2. job[b].row \in Row /\ Tracks(docker, job[b].row, u)
      BY <1>5, <2>3, UnderWay DEF Base, Inside, Assigned, Tracking, CopiesTrack
    <3>3. site'[SiteOf[u]] = site[SiteOf[u]]
      BY <1>2, <2>1, <3>1
    <3>4. PICK r, q : r = row[u] /\ q = job[b].row
      OBVIOUS
    <3>5. /\ Sends(u, r) => Sends(u, r)'
          /\ Up(q) => Up(q)'
          /\ Exists(docker, q.cid) => Exists(docker', q.cid)
      BY <1>3, <2>1, <3>1, <3>2, <3>4
    <3>6. Tuned(b)'
      BY <2>1, <2>3, <3>3, <3>4, <3>5
      DEF Good, Tuned, Withdrawn, Lapsed, Serves, Down, Alike
    <3>7. Prepared(b)'
      <4>1. Prepared(b) /\ IsUpdate(b)' = IsUpdate(b)
        BY <2>1, <2>3 DEF Good, IsUpdate
      <4>2. at[b] = "stop" /\ OpOf(b) = "delete" => Exists(docker', q.cid)
        BY <3>4, <3>5, <4>1 DEF Prepared
      <4>4. at[b] \in {"persistRunning", "register"} => q.status = "running" /\ Up(q)'
        <5>1. at[b] \in {"persistRunning", "register"} => q.status = "running" /\ Up(q)
          BY <3>4, <4>1 DEF Prepared, Up
        <5>. QED
          BY <3>5, <5>1
      <4>3. job'[b].row = q /\ job'[b].was = job[b].was /\ job'[b].next = job[b].next
        BY <2>1, <3>4
      <4>. QED
        BY <2>1, <3>4, <4>1, <4>2, <4>3, <4>4 DEF Prepared, Up
    <3>. QED
      BY <2>1, <2>3, <3>6, <3>7 DEF Good
  <2>. QED
    BY <2>2, <2>3
<1>6. ASSUME NEW u \in Tasks, row'[u] # NoRow
      PROVE  Mirrors(u, row[u])' \/ \E b \in Clients : Inside(b)' /\ TaskOf(b)' = u
  <2>1. CASE u = TaskOf(c)
    BY <2>1
  <2>2. CASE u # TaskOf(c)
    <3>1. row'[u] = row[u] /\ row[u] # NoRow /\ row[u] \in Row /\ Tracks(docker, row[u], u)
      BY <1>4, <1>6, <2>2
    <3>2. PICK r : r = row[u]
      OBVIOUS
    <3>3. CASE Mirrors(u, r)
      <4>1. Mirrors(u, r)'
        BY <1>3, <2>2, <3>1, <3>2, <3>3 DEF Mirrors
      <4>. QED
        BY <3>1, <3>2, <4>1
    <3>4. ASSUME NEW b \in Clients, Inside(b), TaskOf(b) = u
          PROVE  Inside(b)' /\ TaskOf(b)' = u
      BY <2>2, <3>4 DEF Inside, TaskOf
    <3>5. phase = "up"
      BY <1>1 DEF process
    <3>. QED
      BY <3>1, <3>2, <3>3, <3>4, <3>5 DEF Mirrored
  <2>. QED
    BY <2>1, <2>2
<1>. QED
  BY <1>1, <1>5, <1>6 DEF Mirrored, Inside

\* tasks.Update: what the proxy has afterwards is what it had, and fits the copy.
LEMMA WriteMirrors ==
  ASSUME Base, Mirrored, Patient, NEW c \in Clients,
         NEW label, label \notin RowFree, label \notin {"inspect", "stop", "remove", "drop"},
         NEW r \in Row, Alike(r, job[c].row), NEW next, NEW failed,
         Persist(c, label, r, next, failed),
         next \in {"register", "done", "publish", "start", "recreate"},
         next \in {"register", "start", "recreate"} => Down(TaskOf(c)),
         next \in {"done", "publish"} => Sends(TaskOf(c), r),
         next = "register" => r.status = "running" /\ Up(r),
         next = "recreate" /\ IsUpdate(c) => r.status # "running",
         next = "done" => OpOf(c) # "update"
  PROVE  Mirrored'
<1>. DEFINE t == TaskOf(c)
<1>1. /\ Inside(c) /\ t \in Tasks /\ job[c] \in Job /\ Go(c, next) /\ SetRow(c, r) /\ at[c] = label
      /\ row[t] # NoRow /\ row' = [row EXCEPT ![t] = r] /\ UNCHANGED <<docker, site, process>>
      /\ r # NoRow
  BY PersistSucceeds, TaskDataAssumption DEF Patient, Base
<1>2. /\ at'[c] = next /\ job'[c].op = job[c].op /\ job'[c].task = job[c].task
      /\ job'[c].row = r /\ job'[c].was = job[c].was
      /\ \A b \in Clients \ {c} : at'[b] = at[b] /\ job'[b] = job[b]
      /\ \A u \in Tasks : row'[u] = IF u = t THEN r ELSE row[u]
  BY <1>1 DEF Base, Go, SetRow, Typed, Job
<1>3. ~Withdrawn(c) /\ Tuned(c) /\ t = TaskOf(c)' /\ OpOf(c)' = OpOf(c)
  BY <1>1, <1>2 DEF Withdrawn, Mirrored, Good, TaskOf, OpOf
<1>4. OpOf(c) # "update" => Serves(t, r)
  BY <1>1, <1>3 DEF Base, Settled, Keeps, Alike, Tuned, Serves
<1>5. Good(c)'
  <2>1. CASE next = "done"
    <3>1. Mirrors(t, r)'
      BY <1>1, <1>3, <1>4, <2>1 DEF Mirrors, Serves, Sends, Down, Up
    <3>. QED
      BY <1>1, <1>2, <1>3, <2>1, <3>1 DEF Good, RowFree
  <2>2. CASE next # "done"
    <3>1. Tuned(c)'
      BY <1>1, <1>2, <1>3, <1>4, <2>2
      DEF Tuned, Serves, Sends, Down, Up, Lapsed, Alike
    <3>2. Prepared(c)'
      BY <1>1, <1>2, <1>3, <2>2 DEF Prepared, Up, Pending, IsUpdate
    <3>. QED
      BY <1>2, <2>2, <3>1, <3>2 DEF Good, RowFree
  <2>. QED
    BY <2>1, <2>2
<1>6. Calm(docker') /\ Spares(docker, docker', t)
  BY <1>1 DEF Mirrored, Calm, Spares
<1>. QED
  BY <1>1, <1>2, <1>3, <1>5, <1>6, WorkMirrors DEF Inside, RowFree

LEMMA PersistActionsMirror ==
  ASSUME Base, Mirrored, Patient, NEW c \in Clients,
         \/ PersistRunning(c) \/ FailTask(c) \/ PersistCreated(c) \/ MarkStarting(c)
         \/ PersistStopped(c) \/ MarkRestarting(c) \/ SaveMetadata(c) \/ SaveSpec(c)
         \/ SaveRecreated(c)
  PROVE  Mirrored'
<1>. DEFINE t == TaskOf(c)
            r == job[c].row
<1>1. /\ at[c] \notin RowFree /\ Inside(c) /\ r \in Row /\ Assigned(c) /\ Tuned(c) /\ Prepared(c)
      /\ t \in Tasks
  BY UnderWay
  DEF RowFree, Inside, Assigned, Persist, PersistRunning, FailTask, PersistCreated, MarkStarting,
      PersistStopped, MarkRestarting, SaveMetadata, SaveSpec, SaveRecreated, Base, Mirrored, Good
<1>2. ASSUME NEW q \in {r, [r EXCEPT !.status = "error"], [r EXCEPT !.status = "starting"],
                        [r EXCEPT !.status = "stopped", !.addr = NoAddr]}
      PROVE  q \in Row /\ Alike(q, job[c].row)
  BY <1>1, <1>2 DEF Row, Statuses, Alike
<1>3. /\ [r EXCEPT !.status = "error"].status = "error"
      /\ [r EXCEPT !.status = "stopped", !.addr = NoAddr].status = "stopped"
  BY <1>1 DEF Row
<1>4. \A q : Down(t) /\ q.status # "running" => Sends(t, q)
  BY DEF Sends
<1>5. /\ Returned(c) \in {"publish", "done"}
      /\ Returned(c) = "done" => OpOf(c) # "update"
  BY DEF Returned
<1>6. CASE PersistRunning(c)
  <2>1. r.status = "running" /\ Up(r) /\ Down(t) /\ r \in Row /\ Alike(r, job[c].row)
    BY <1>1, <1>2, <1>6 DEF PersistRunning, Persist, Prepared, Tuned, Lapsed
  <2>. HIDE DEF r
  <2>. QED
    BY <1>6, <2>1, WriteMirrors DEF PersistRunning, RowFree, r
<1>7. CASE FailTask(c)
  <2>1. Down(t)
    BY <1>1, <1>7 DEF FailTask, Persist, Tuned, Lapsed
  <2>2. PICK q : q = [r EXCEPT !.status = "error"]
    OBVIOUS
  <2>3. q \in Row /\ Alike(q, job[c].row) /\ Sends(t, q)
    BY <1>2, <1>3, <1>4, <2>1, <2>2
  <2>4. Persist(c, "fail", q, Returned(c), Returned(c))
    BY <1>7, <2>2 DEF FailTask
  <2>. QED
    BY <1>5, <2>3, <2>4, WriteMirrors DEF RowFree
<1>8. CASE PersistCreated(c)
  <2>1. Down(t) /\ r \in Row /\ Alike(r, job[c].row)
    BY <1>1, <1>2, <1>8 DEF PersistCreated, Persist, Tuned, Lapsed
  <2>. HIDE DEF r
  <2>. QED
    BY <1>8, <2>1, WriteMirrors DEF PersistCreated, RowFree, r
<1>9. CASE MarkStarting(c)
  <2>1. Down(t) /\ ~IsUpdate(c) /\ r \in Row /\ Alike(r, job[c].row)
    BY <1>1, <1>2, <1>9
    DEF MarkStarting, Persist, Tuned, Lapsed, Prepared, Sends, IsUpdate, Withdrawn
  <2>2. PICK next \in {"recreate", "start"} : Persist(c, "markStarting", r, next, "done")
    BY <1>9 DEF MarkStarting
  <2>. HIDE DEF r
  <2>. QED
    BY <2>1, <2>2, WriteMirrors DEF RowFree, r
<1>10. CASE PersistStopped(c)
  <2>1. Down(t) /\ OpOf(c) = "stop"
    BY <1>1, <1>10 DEF PersistStopped, Persist, Tuned, Lapsed, Prepared
  <2>2. PICK q : q = [r EXCEPT !.status = "stopped", !.addr = NoAddr]
    OBVIOUS
  <2>3. q \in Row /\ Alike(q, job[c].row) /\ Sends(t, q)
    BY <1>2, <1>3, <1>4, <2>1, <2>2
  <2>4. Persist(c, "persistStopped", q, "done", "done")
    BY <1>10, <2>2 DEF PersistStopped
  <2>. QED
    BY <2>1, <2>3, <2>4, WriteMirrors DEF RowFree
<1>11. CASE MarkRestarting(c)
  <2>1. Down(t)
    BY <1>1, <1>11 DEF MarkRestarting, Persist, Tuned, Lapsed
  <2>2. PICK q : q = [r EXCEPT !.status = "starting"]
    OBVIOUS
  <2>3. q \in Row /\ Alike(q, job[c].row)
    BY <1>2, <2>2
  <2>4. Persist(c, "markRestarting", q, "start", "done")
    BY <1>11, <2>2 DEF MarkRestarting
  <2>. QED
    BY <2>1, <2>3, <2>4, WriteMirrors DEF RowFree
<1>12. CASE SaveMetadata(c)
  <2>1. Sends(t, row[t]) /\ at[c] = "save" /\ r \in Row /\ Alike(r, job[c].row)
    BY <1>1, <1>2, <1>12 DEF SaveMetadata, Persist, Tuned, Lapsed, Withdrawn
  <2>2. Sends(t, r)
    BY <1>1, <2>1 DEF Prepared, Sends, Up
  <2>. HIDE DEF r
  <2>. QED
    BY <1>5, <1>12, <2>1, <2>2, WriteMirrors DEF SaveMetadata, RowFree, r
<1>13. CASE SaveSpec(c)
  <2>1. PICK q : q = job[c].next
    OBVIOUS
  <2>2. q \in Row /\ Down(t) /\ q.status # "running" /\ at[c] = "saveSpec" /\ IsUpdate(c)
    BY <1>1, <1>13, <2>1 DEF SaveSpec, Persist, Assigned, Tuned, Lapsed, Prepared, Pending
  <2>3. Alike(q, job[c].row)
    BY <1>1, <2>1, <2>2, TaskDataAssumption DEF Base, Settled, Keeps
  <2>4. PICK next \in {"recreate", Returned(c)} : Persist(c, "saveSpec", q, next, "done")
    BY <1>13, <2>1 DEF SaveSpec
  <2>. QED
    BY <1>4, <1>5, <2>2, <2>3, <2>4, WriteMirrors DEF RowFree
<1>14. CASE SaveRecreated(c)
  <2>1. Down(t) /\ r.status # "running" /\ r \in Row /\ Alike(r, job[c].row)
    BY <1>1, <1>2, <1>14 DEF SaveRecreated, Persist, Tuned, Lapsed, Prepared
  <2>2. Sends(t, r)
    BY <1>4, <2>1
  <2>. HIDE DEF r
  <2>. QED
    BY <1>5, <1>14, <2>1, <2>2, WriteMirrors DEF SaveRecreated, RowFree, r
<1>. QED
  BY <1>6, <1>7, <1>8, <1>9, <1>10, <1>11, <1>12, <1>13, <1>14

LEMMA CallsCalm ==
  ASSUME NEW d \in DockerStates, Calm(d), NEW k
  PROVE  /\ Calm(Stopped(d, k)) /\ Calm(Gone(d, k))
         /\ \A e \in StartOutcomes(d, k) : Calm(e)
<1>1. ASSUME Exists(d, k), NEW a, NEW s, s \notin {"running", "restarting"} \/ (s = "running" /\ a # NoAddr)
      PROVE  Calm([d EXCEPT ![k] = [@ EXCEPT !.state = s, !.addr = a]])
  <2>1. k \in Cids /\ d[k] \in Container
    BY <1>1 DEF Exists, DockerStates
  <2>2. [d[k] EXCEPT !.state = s, !.addr = a].state = s /\ [d[k] EXCEPT !.state = s, !.addr = a].addr = a
    BY <2>1 DEF Container
  <2>. QED
    BY <1>1, <2>1, <2>2 DEF Calm, Exists, DockerStates
<1>2. Exists(d, k) => Calm([d EXCEPT ![k] = Removed])
  BY DEF Calm, Exists, DockerStates
<1>3. Calm(Stopped(d, k)) /\ Calm(Gone(d, k))
  BY <1>1, <1>2 DEF Stopped, Gone
<1>4. \A e \in StartOutcomes(d, k) : Calm(e)
  <2>1. \A e \in StartOutcomes(d, k) :
          Exists(d, k) /\ (e = d \/ \E a \in Addrs : e = Started(d, k, a))
    BY DEF StartOutcomes
  <2>2. ASSUME NEW a \in Addrs, Exists(d, k)
        PROVE  Calm(Started(d, k, a))
    BY <1>1, <2>2, TaskDataAssumption DEF Started
  <2>. QED
    BY <2>1, <2>2
<1>. QED
  BY <1>3, <1>4

LEMMA CreationCalm ==
  ASSUME NEW d \in DockerStates, Calm(d), NEW t \in Tasks
  PROVE  /\ \A e \in CreateFailures(d, t) : Calm(e)
         /\ \A k \in Cids, s \in Specs : Calm(Created(d, k, t, s))
<1>1. Calm(Reclaimed(d, t))
  BY DEF Calm, Reclaimed, Exists
<1>2. ASSUME NEW k \in Cids, NEW s \in Specs
      PROVE  Calm(Created(d, k, t, s))
  <2>1. /\ \A j \in Cids \ {k} : Created(d, k, t, s)[j] = Reclaimed(d, t)[j]
        /\ Created(d, k, t, s)[k].state = "created"
    BY DEF Created, Reclaimed
  <2>. QED
    BY <1>1, <2>1 DEF Calm, Exists
<1>. QED
  BY <1>1, <1>2 DEF CreateFailures

\* Steps outside Docker and the registry.
LEMMA MovesMirror ==
  ASSUME Base, Mirrored, Patient, NEW c \in Clients,
         Pull(c) \/ Refuse(c) \/ DeployAgain(c) \/ InspectForDelete(c)
  PROVE  Mirrored'
<1>. DEFINE t == TaskOf(c)
<1>1. /\ Inside(c) /\ UNCHANGED <<row, job, docker, site, process>> /\ job[c] \in Job /\ t \in Tasks
      /\ Assigned(c) /\ Good(c)
  BY UnderWay
  DEF Inside, Pull, Refuse, DeployAgain, InspectForDelete, Reads, OnlyMoves, Base, Mirrored
<1>2. ASSUME NEW label, Go(c, label)
      PROVE  at'[c] = label /\ \A b \in Clients \ {c} : at'[b] = at[b] /\ job'[b] = job[b]
  BY <1>1, <1>2 DEF Go, Base, Typed
<1>3. /\ TaskOf(c)' = t /\ OpOf(c)' = OpOf(c) /\ Calm(docker') /\ Spares(docker, docker', t)
  BY <1>1 DEF TaskOf, OpOf, Mirrored, Spares
<1>4. ASSUME NEW label, Go(c, label), label \notin {"idle", "waiting"}, Good(c)'
      PROVE  Mirrored'
  <2>1. Inside(c)'
    BY <1>2, <1>4 DEF Inside
  <2>. QED
    BY <1>1, <1>2, <1>3, <1>4, <2>1, WorkMirrors
<1>5. CASE Refuse(c) \/ DeployAgain(c)
  <2>1. Go(c, "done") /\ at[c] \in {"reserve", "read"}
    BY <1>5 DEF Refuse, DeployAgain, Reads
  <2>2. Good(c)'
    BY <1>1, <1>2, <1>3, <2>1 DEF Good, RowFree, Mirrors, Serves, Sends, Down, Up
  <2>. QED
    BY <1>4, <2>1, <2>2
<1>6. CASE InspectForDelete(c)
  <2>1. PICK label \in {"stop", "remove"} :
          Go(c, label) /\ (label = "stop" => Exists(docker, job[c].row.cid))
    BY <1>6 DEF InspectForDelete, ReportedUp, Patient
  <2>2. OpOf(c) = "delete"
    BY <1>1, <1>6 DEF InspectForDelete, Assigned
  <2>3. Good(c)'
    BY <1>1, <1>2, <1>3, <2>1, <2>2
    DEF Good, RowFree, Tuned, Prepared, Withdrawn, Lapsed, Pending, IsUpdate
  <2>. QED
    BY <1>4, <2>1, <2>3
<1>7. CASE Pull(c)
  <2>1. /\ at[c] = "pull" /\ Tuned(c) /\ Prepared(c) /\ ~Withdrawn(c) /\ ~Lapsed(c)
        /\ OpOf(c) \in {"create", "restart", "update", "deploy"} /\ Sends(t, row[t])
    BY <1>1, <1>7 DEF Pull, Good, RowFree, Withdrawn, Lapsed, Assigned, Tuned
  <2>2. PICK label \in {"create", "unregister", "stop", "saveSpec", "fail", "done"} :
          /\ Go(c, label)
          /\ label \in {"create", "fail"} => OpOf(c) = "create"
          /\ label = "unregister" => OpOf(c) = "restart"
          /\ label \in {"stop", "saveSpec"} => IsUpdate(c)
          /\ label = "saveSpec" => job[c].was.status # "running"
          /\ label = "done" => OpOf(c) # "create"
    BY <1>7, <2>1 DEF Pull, IsUpdate
  <2>3. label \in {"create", "fail", "saveSpec"} => Down(t)
    BY <2>1, <2>2 DEF Prepared, Sends
  <2>4. label = "done" => Mirrors(t, row[t])
    BY <2>1, <2>2 DEF Tuned, Prepared, Mirrors, IsUpdate
  <2>5. CASE label = "done"
    <3>1. Good(c)'
      BY <1>1, <1>2, <1>3, <2>2, <2>4, <2>5 DEF Good, RowFree, Mirrors, Serves, Sends, Down, Up
    <3>. QED
      BY <1>4, <2>2, <2>5, <3>1
  <2>6. CASE label # "done"
    <3>1. at'[c] = label
      BY <1>2, <2>2
    <3>2. Tuned(c)'
      BY <1>1, <1>3, <2>1, <2>2, <2>3, <2>6, <3>1
      DEF Tuned, Withdrawn, Lapsed, Serves, Sends, Down, Up, IsUpdate
    <3>3. Prepared(c)'
      BY <1>1, <1>3, <2>1, <2>2, <2>6, <3>1 DEF Prepared, Pending, IsUpdate
    <3>. QED
      BY <1>4, <2>2, <2>6, <3>1, <3>2, <3>3 DEF Good, RowFree
  <2>. QED
    BY <2>5, <2>6
<1>. QED
  BY <1>5, <1>6, <1>7

\* A Docker call while the hop is down or coming down, or withdrawn for good.
LEMMA CallMirrors ==
  ASSUME Base, Mirrored, NEW c \in Clients, at[c] \notin RowFree,
         UNCHANGED <<row, site, process>>,
         NEW q, SetRow(c, q) \/ (UNCHANGED job /\ q = job[c].row),
         NEW label, Go(c, label),
         \/ label \in {"remove", "drop"} /\ Withdrawn(c)
         \/ label = "unregister" /\ at[c] = "stop" /\ ~Withdrawn(c)
         \/ /\ label \in {"persistCreated", "markRestarting", "saveRecreated", "start", "ready",
                          "persistRunning", "fail"}
            /\ Lapsed(c)
         \/ label = "fail" /\ Down(TaskOf(c)) /\ ~Withdrawn(c),
         label = "persistRunning" => q.status = "running" /\ Up(q)',
         label = "saveRecreated" => IsUpdate(c) /\ q.status # "running",
         Spares(docker, docker', TaskOf(c)), Calm(docker')
  PROVE  Mirrored'
<1>1. /\ Inside(c) /\ job[c] \in Job /\ TaskOf(c) \in Tasks /\ Tuned(c) /\ Prepared(c)
  BY UnderWay DEF Inside, RowFree, Base, Mirrored, Good
<1>2. /\ at'[c] = label /\ job'[c].op = job[c].op /\ job'[c].task = job[c].task
      /\ job'[c].row = q /\ job'[c].was = job[c].was /\ job'[c].next = job[c].next
      /\ \A b \in Clients \ {c} : at'[b] = at[b] /\ job'[b] = job[b]
  BY <1>1 DEF Base, Go, SetRow, Typed, Job
<1>3. TaskOf(c)' = TaskOf(c) /\ OpOf(c)' = OpOf(c) /\ Inside(c)'
  BY <1>2 DEF TaskOf, OpOf, Inside
<1>4. Lapsed(c) => ~Withdrawn(c)
  BY DEF Lapsed, Withdrawn
<1>5. Tuned(c)'
  BY <1>1, <1>2, <1>3, <1>4 DEF Tuned, Withdrawn, Lapsed, Serves, Down
<1>6. Prepared(c)'
  BY <1>1, <1>2, <1>3 DEF Prepared, Pending, IsUpdate
<1>7. Good(c)'
  BY <1>2, <1>5, <1>6 DEF Good, RowFree
<1>. QED
  BY <1>1, <1>2, <1>3, <1>7, WorkMirrors

LEMMA DockerCallsMirror ==
  ASSUME Base, Mirrored, Patient, NEW c \in Clients,
         \/ StopContainer(c) \/ StartContainer(c) \/ UndoCreate(c) \/ RemoveContainer(c)
         \/ AwaitReady(c)
  PROVE  Mirrored'
<1>. DEFINE k == job[c].row.cid
<1>1. /\ at[c] \notin RowFree /\ UNCHANGED <<row, site, process>> /\ Assigned(c)
      /\ Tuned(c) /\ Prepared(c) /\ job[c].row \in Row /\ docker \in DockerStates
  <2>1. at[c] \in {"stop", "start", "undo", "remove", "ready"} /\ UNCHANGED <<row, site, process>>
    BY DEF StopContainer, StartContainer, UndoCreate, RemoveContainer, AwaitReady, OnlyDocker, OnlyMoves
  <2>2. at[c] \notin RowFree /\ Inside(c)
    BY <2>1 DEF RowFree, Inside
  <2>. QED
    BY <2>1, <2>2, UnderWay DEF Base, Typed, Mirrored, Good, Inside, Assigned
<1>2. Exists(docker, k) => docker[k].task = TaskOf(c)
  BY <1>1, OwnContainer DEF Base
<1>3. /\ Calm(docker) /\ Spares(docker, docker, TaskOf(c))
      /\ \A d \in {Stopped(docker, k), Gone(docker, k)} \cup StartOutcomes(docker, k) :
           Calm(d) /\ Spares(docker, d, TaskOf(c))
  <2>. HIDE DEF k
  <2>1. Calm(docker) /\ Spares(docker, docker, TaskOf(c))
    BY DEF Mirrored, Spares
  <2>2. \A d \in {Stopped(docker, k), Gone(docker, k)} \cup StartOutcomes(docker, k) : Calm(d)
    BY <1>1, <2>1, CallsCalm
  <2>3. \A d \in {Stopped(docker, k), Gone(docker, k)} \cup StartOutcomes(docker, k) :
          Spares(docker, d, TaskOf(c))
    BY <1>1, <1>2, CallsSpare
  <2>. QED
    BY <2>1, <2>2, <2>3
<1>4. CASE StopContainer(c)
  <2>1. at[c] = "stop" /\ UNCHANGED job
    BY <1>4 DEF StopContainer
  <2>2. CASE OpOf(c) = "delete"
    <3>1. Exists(docker, k) /\ Withdrawn(c)
      BY <1>1, <2>1, <2>2 DEF Prepared, Withdrawn
    <3>2. Go(c, "remove") /\ docker' = Stopped(docker, k)
      BY <1>4, <2>2, <3>1 DEF StopContainer, Patient
    <3>. QED
      BY <1>1, <1>3, <2>1, <3>1, <3>2, CallMirrors
  <2>3. CASE OpOf(c) # "delete" /\ Exists(docker, k)
    <3>1. Go(c, "unregister") /\ docker' = Stopped(docker, k) /\ ~Withdrawn(c)
      BY <1>4, <2>3 DEF StopContainer, Patient, Withdrawn
    <3>. QED
      BY <1>1, <1>3, <2>1, <3>1, CallMirrors
  <2>4. CASE OpOf(c) # "delete" /\ ~Exists(docker, k)
    <3>1. Go(c, "fail") /\ docker' = docker /\ ~Withdrawn(c)
      BY <1>4, <2>4 DEF StopContainer, Patient, Withdrawn
    <3>2. Sends(TaskOf(c), row[TaskOf(c)]) /\ row[TaskOf(c)].cid = k
      BY <1>1, <2>1, <2>4, <3>1 DEF Tuned, Lapsed, Prepared
    <3>3. Down(TaskOf(c))
      BY <2>4, <3>2 DEF Sends, Up, IsRunning
    <3>. QED
      BY <1>1, <1>3, <2>1, <3>1, <3>3, CallMirrors
  <2>. QED
    BY <2>2, <2>3, <2>4
<1>5. CASE StartContainer(c)
  <2>1. /\ at[c] = "start" /\ UNCHANGED job /\ Lapsed(c)
    BY <1>5 DEF StartContainer, Lapsed
  <2>2. PICK label \in {"ready", "fail"} : Go(c, label)
    BY <1>5 DEF StartContainer
  <2>3. docker' = docker \/ docker' \in StartOutcomes(docker, k)
    BY <1>5 DEF StartContainer
  <2>. QED
    BY <1>1, <1>3, <2>1, <2>2, <2>3, CallMirrors
<1>6. CASE AwaitReady(c)
  <2>1. at[c] = "ready" /\ Lapsed(c) /\ docker' = docker
    BY <1>6 DEF AwaitReady, Lapsed, OnlyMoves
  <2>2. CASE Go(c, "fail") /\ UNCHANGED job
    BY <1>1, <1>3, <2>1, <2>2, CallMirrors
  <2>3. CASE Go(c, "persistRunning") /\ Reachable(docker, k) /\
             SetRow(c, [job[c].row EXCEPT !.status = "running", !.pending = FALSE,
                                          !.addr = docker[k].addr])
    <3>1. PICK q : q = [job[c].row EXCEPT !.status = "running", !.pending = FALSE,
                                          !.addr = docker[k].addr]
      OBVIOUS
    <3>2. q.status = "running" /\ q.cid = k /\ q.addr = docker[k].addr
      BY <1>1, <3>1 DEF Row
    <3>3. Up(q)'
      BY <2>1, <2>3, <3>2 DEF Up, Reachable, IsRunning, Exists
    <3>. QED
      BY <1>1, <1>3, <2>1, <2>3, <3>1, <3>2, <3>3, CallMirrors
  <2>. QED
    BY <1>6, <2>2, <2>3 DEF AwaitReady
<1>7. CASE RemoveContainer(c)
  <2>1. /\ at[c] = "remove" /\ OpOf(c) = "delete" /\ UNCHANGED job
        /\ Go(c, "drop") /\ docker' = Gone(docker, k)
    BY <1>1, <1>7 DEF RemoveContainer, Patient, Assigned
  <2>2. Withdrawn(c)
    BY <2>1 DEF Withdrawn
  <2>. QED
    BY <1>1, <1>3, <2>1, <2>2, CallMirrors
<1>8. ~UndoCreate(c)
  BY <1>1 DEF Prepared, UndoCreate
<1>. QED
  BY <1>4, <1>5, <1>6, <1>7, <1>8

\* A container is created while the hop is down.
LEMMA CreationsMirror ==
  ASSUME Base, Mirrored, Patient, NEW c \in Clients, RecreateContainer(c) \/ CreateContainer(c)
  PROVE  Mirrored'
<1>. DEFINE t == TaskOf(c)
            r == job[c].row
            gone == Gone(docker, r.cid)
            fresh == {k \in Cids : docker[k] = Unused}
<1>1. at[c] \in {"create", "recreate"} /\ UNCHANGED <<row, site, process>>
  BY DEF RecreateContainer, CreateContainer, OnlyDocker
<1>2. /\ at[c] \notin RowFree /\ Inside(c) /\ Lapsed(c)
  BY <1>1 DEF RowFree, Inside, Lapsed
<1>3. /\ r \in Row /\ r.spec \in Specs /\ t \in Tasks /\ docker \in DockerStates
      /\ Calm(docker) /\ Prepared(c)
  BY <1>2, UnderWay DEF Base, Typed, Mirrored, Good, Inside, Assigned, Row
<1>4. Exists(docker, r.cid) => docker[r.cid].task = t
  BY <1>2, OwnContainer DEF Base
<1>5. gone \in DockerStates /\ Calm(gone) /\ Spares(docker, gone, t)
  <2>. HIDE DEF r
  <2>. QED
    BY <1>3, <1>4, CallsCalm, CallsSpare, GoneEvolves
<1>6. ASSUME NEW d \in {docker, gone}, MayReclaim(d, t), NEW k \in fresh
      PROVE  Calm(Created(d, k, t, r.spec)) /\ Spares(docker, Created(d, k, t, r.spec), t)
  <2>1. d \in DockerStates /\ Calm(d) /\ ~Exists(d, k)
    BY <1>3, <1>5, <1>6, GoneKeepsFresh DEF Exists
  <2>2. Spares(d, Created(d, k, t, r.spec), t)
    BY <1>6, <2>1, ReclaimSpares
  <2>3. Spares(docker, Created(d, k, t, r.spec), t)
    BY <1>3, <1>4, <1>6, <2>2, GoneSpares
  <2>. QED
    BY <1>3, <1>6, <2>1, <2>3, CreationCalm
<1>7. ASSUME Go(c, "fail"), UNCHANGED job, docker' \in {docker, gone}
      PROVE  Mirrored'
  <2>1. Calm(docker') /\ Spares(docker, docker', t)
    BY <1>3, <1>5, <1>7 DEF Spares
  <2>. QED
    BY <1>1, <1>2, <1>7, <2>1, CallMirrors
<1>8. CASE RecreateContainer(c)
  <2>1. CASE \E k \in fresh : /\ MayReclaim(gone, t)
                              /\ docker' = Created(gone, k, t, r.spec)
                              /\ SetRow(c, [r EXCEPT !.cid = k, !.pending = FALSE])
                              /\ Go(c, AfterCreation(c))
    <3>1. PICK k \in fresh : /\ MayReclaim(gone, t)
                             /\ docker' = Created(gone, k, t, r.spec)
                             /\ SetRow(c, [r EXCEPT !.cid = k, !.pending = FALSE])
      BY <2>1
    <3>2. PICK q : q = [r EXCEPT !.cid = k, !.pending = FALSE]
      OBVIOUS
    <3>3. q.status = r.status
      BY <1>3, <3>2 DEF Row
    <3>4. AfterCreation(c) \in {"markRestarting", "saveRecreated", "start"}
      BY DEF AfterCreation
    <3>5. AfterCreation(c) = "saveRecreated" => IsUpdate(c)
      BY DEF AfterCreation
    <3>6. AfterCreation(c) = "saveRecreated" => q.status # "running"
      BY <1>3, <1>8, <3>3, <3>5 DEF RecreateContainer, Prepared
    <3>7. Calm(docker') /\ Spares(docker, docker', t)
      BY <1>6, <3>1
    <3>8. PICK label : label = AfterCreation(c)
      OBVIOUS
    <3>9. Go(c, label) /\ SetRow(c, q)
      BY <2>1, <3>1, <3>2, <3>8
    <3>. QED
      BY <1>1, <1>2, <3>4, <3>5, <3>6, <3>7, <3>8, <3>9, CallMirrors
  <2>2. CASE Go(c, "fail") /\ UNCHANGED job /\ docker' = gone
    BY <1>7, <2>2
  <2>. QED
    BY <1>8, <2>1, <2>2 DEF RecreateContainer, Patient
<1>9. CASE CreateContainer(c)
  <2>1. CASE \E k \in fresh : /\ MayReclaim(docker, t)
                              /\ docker' = Created(docker, k, t, r.spec)
                              /\ SetRow(c, [r EXCEPT !.cid = k, !.status = "starting"])
                              /\ Go(c, "persistCreated")
    <3>1. PICK k \in fresh : /\ MayReclaim(docker, t)
                             /\ docker' = Created(docker, k, t, r.spec)
                             /\ SetRow(c, [r EXCEPT !.cid = k, !.status = "starting"])
      BY <2>1
    <3>2. PICK q : q = [r EXCEPT !.cid = k, !.status = "starting"]
      OBVIOUS
    <3>3. Calm(docker') /\ Spares(docker, docker', t) /\ SetRow(c, q)
      BY <1>6, <3>1, <3>2
    <3>. QED
      BY <1>1, <1>2, <2>1, <3>3, CallMirrors
  <2>2. CASE Go(c, "fail") /\ UNCHANGED job /\ docker' = docker
    BY <1>7, <2>2
  <2>. QED
    BY <1>9, <2>1, <2>2 DEF CreateContainer, Patient
<1>. QED
  BY <1>8, <1>9

\* The calls that write the registry.
LEMMA RegistryMirrors ==
  ASSUME Base, Mirrored, NEW c \in Clients,
         Unregister(c) \/ Register(c) \/ Clear(c) \/ Publish(c)
  PROVE  Mirrored'
<1>. DEFINE t == TaskOf(c)
<1>1. at[c] \in {"unregister", "register", "clear", "publish"} /\ UNCHANGED <<row, docker, job, process>>
  BY DEF Unregister, Register, Clear, Publish, OnlyRegistry
<1>2. at[c] \notin RowFree /\ Inside(c)
  BY <1>1 DEF RowFree, Inside
<1>3. /\ job[c] \in Job /\ t \in Tasks /\ SiteOf[t] \in Sites /\ site[SiteOf[t]] \in Site
      /\ Assigned(c) /\ Tuned(c) /\ Prepared(c) /\ job[c].row \in Row
  BY <1>2, UnderWay, RegistryAssumption DEF Base, Typed, Mirrored, Good, Inside, Assigned
<1>4. ASSUME NEW label, Go(c, label)
      PROVE  at'[c] = label /\ \A b \in Clients \ {c} : at'[b] = at[b] /\ job'[b] = job[b]
  BY <1>1, <1>4 DEF Go, Base, Typed
<1>5. /\ TaskOf(c)' = t /\ OpOf(c)' = OpOf(c) /\ IsUpdate(c)' = IsUpdate(c)
      /\ Calm(docker') /\ Spares(docker, docker', t)
  BY <1>1 DEF TaskOf, OpOf, IsUpdate, Mirrored, Spares
<1>6. ASSUME NEW label, Go(c, label), label \notin {"idle", "waiting"}, Good(c)',
             NEW new, site' = [site EXCEPT ![SiteOf[t]] = new]
      PROVE  Mirrored'
  <2>1. Inside(c)' /\ \A s \in Sites \ {SiteOf[t]} : site'[s] = site[s]
    BY <1>4, <1>6 DEF Inside, Base, Typed
  <2>. QED
    BY <1>1, <1>2, <1>4, <1>5, <1>6, <2>1, WorkMirrors
<1>7. ASSUME NEW new, site' = [site EXCEPT ![SiteOf[t]] = new]
      PROVE  site'[SiteOf[t]] = new
  BY <1>3, <1>7 DEF Base, Typed
<1>8. CASE Unregister(c)
  <2>1. PICK new : new = [site[SiteOf[t]] EXCEPT !.task = NoHop]
    OBVIOUS
  <2>2. /\ site' = [site EXCEPT ![SiteOf[t]] = new] /\ new.task = NoHop
        /\ new.routes = site[SiteOf[t]].routes /\ new.lock = site[SiteOf[t]].lock
    BY <1>3, <1>8, <2>1 DEF Unregister, Unregistered, Site
  <2>3. at[c] = "unregister" /\ OpOf(c) \in {"stop", "restart", "update", "deploy"}
    BY <1>3, <1>8 DEF Unregister, Assigned
  <2>4. PICK label \in {"persistStopped", "recreate", "saveSpec"} :
          /\ Go(c, label)
          /\ label = "persistStopped" => OpOf(c) = "stop"
          /\ label = "recreate" => OpOf(c) = "restart"
    BY <1>8 DEF Unregister
  <2>5. Tuned(c)'
    BY <1>1, <1>3, <1>4, <1>5, <1>7, <2>2, <2>3, <2>4 DEF Tuned, Withdrawn, Lapsed, Serves, Down
  <2>6. Prepared(c)'
    BY <1>1, <1>3, <1>4, <1>5, <2>3, <2>4 DEF Prepared, Pending, IsUpdate
  <2>. QED
    BY <1>4, <1>6, <2>2, <2>4, <2>5, <2>6 DEF Good, RowFree
<1>9. CASE Register(c)
  <2>1. PICK hop : hop = [addr |-> job[c].row.addr, conf |-> job[c].row.spec.conf]
    OBVIOUS
  <2>2. PICK new : new = [site[SiteOf[t]] EXCEPT !.task = hop]
    OBVIOUS
  <2>3. /\ site' = [site EXCEPT ![SiteOf[t]] = new] /\ new.task = hop
        /\ new.routes = site[SiteOf[t]].routes /\ new.lock = site[SiteOf[t]].lock
    BY <1>3, <1>9, <2>1, <2>2 DEF Register, Registered, Site
  <2>4. /\ at[c] = "register" /\ row[t] = job[c].row /\ row[t].status = "running" /\ Up(row[t])
        /\ ~Withdrawn(c)
    BY <1>3, <1>9 DEF Register, Prepared, Withdrawn
  <2>5. PICK label \in {"publish", "done"} : Go(c, label) /\ (label = "done" => OpOf(c) # "update")
    BY <1>9 DEF Register, Returned
  <2>6. PICK q : q = row[t]
    OBVIOUS
  <2>7. Sends(t, q)'
    BY <1>1, <1>5, <1>7, <2>1, <2>3, <2>4, <2>6 DEF Sends, Up
  <2>8. /\ Serves(t, q) => Serves(t, q)'
        /\ Serves(t, job[c].was) => Serves(t, job[c].was)'
    BY <1>1, <1>5, <1>7, <2>3 DEF Serves
  <2>9. CASE label = "done"
    <3>1. Mirrors(t, q)'
      BY <1>3, <2>4, <2>5, <2>6, <2>7, <2>8, <2>9 DEF Mirrors, Tuned
    <3>2. Good(c)'
      BY <1>1, <1>4, <1>5, <2>5, <2>6, <2>9, <3>1 DEF Good, RowFree
    <3>. QED
      BY <1>6, <2>3, <2>5, <2>9, <3>2
  <2>10. CASE label = "publish"
    <3>1. at'[c] = "publish"
      BY <1>4, <2>5, <2>10
    <3>2. Tuned(c)'
      BY <1>1, <1>3, <1>5, <2>4, <2>6, <2>7, <2>8, <3>1 DEF Tuned, Withdrawn, Lapsed, Alike
    <3>3. Prepared(c)'
      BY <3>1 DEF Prepared, Pending
    <3>. QED
      BY <1>6, <2>3, <2>5, <2>10, <3>1, <3>2, <3>3 DEF Good, RowFree
  <2>. QED
    BY <2>5, <2>9, <2>10
<1>10. CASE Clear(c)
  <2>1. OpOf(c) = "delete" /\ site' = [site EXCEPT ![SiteOf[t]] = EmptySite]
    BY <1>3, <1>10 DEF Clear, Assigned
  <2>2. PICK label \in {"drop", "inspect"} : Go(c, label)
    BY <1>10 DEF Clear
  <2>3. Tuned(c)' /\ Prepared(c)'
    BY <1>4, <1>5, <2>1, <2>2 DEF Tuned, Prepared, Withdrawn, Lapsed, Pending
  <2>. QED
    BY <1>4, <1>6, <2>1, <2>2, <2>3 DEF Good, RowFree
<1>11. CASE Publish(c)
  <2>. DEFINE r == job[c].row
              w == job[c].was
              s == site[SiteOf[t]]
  <2>1. PICK new : /\ new = [s EXCEPT !.routes = IF r.routes # w.routes THEN r.routes ELSE @,
                                      !.lock = IF r.hash # w.hash THEN r.hash ELSE @]
    OBVIOUS
  <2>2. /\ new.task = s.task /\ new \in [task : {s.task}, routes : {new.routes}, lock : {new.lock}]
        /\ new.routes = IF r.routes # w.routes THEN r.routes ELSE s.routes
        /\ new.lock = IF r.hash # w.hash THEN r.hash ELSE s.lock
    BY <1>3, <2>1 DEF Site
  <2>3. site'[SiteOf[t]] = new /\ \A u \in Sites \ {SiteOf[t]} : site'[u] = site[u]
    BY <1>3, <1>11, <2>1 DEF Publish, WithLock, WithRoutes, Site, Base, Typed
  <2>4. site' = [site EXCEPT ![SiteOf[t]] = new]
    BY <1>3, <1>11, <2>3 DEF Publish, WithLock, WithRoutes, Base, Typed
  <2>5. /\ Serves(t, w) /\ Alike(row[t], r) /\ Sends(t, row[t])
    BY <1>3, <1>11 DEF Publish, Assigned, Tuned, Withdrawn, Lapsed
  <2>6. PICK q : q = row[t]
    OBVIOUS
  <2>7. Mirrors(t, q)'
    BY <1>1, <1>5, <2>2, <2>3, <2>5, <2>6 DEF Mirrors, Serves, Sends, Alike, Down, Up
  <2>8. Go(c, "done")
    BY <1>11 DEF Publish
  <2>9. Good(c)'
    BY <1>1, <1>4, <1>5, <2>6, <2>7, <2>8 DEF Good, RowFree
  <2>. QED
    BY <1>6, <2>4, <2>8, <2>9
<1>. QED
  BY <1>8, <1>9, <1>10, <1>11

\* The read an operation begins with: the proxy has what the row says.
LEMMA BeginMirrors ==
  ASSUME Base, Mirrored, NEW c \in Clients, Reads(c, OpOf(c)), OnlyMoves,
         NEW label, Go(c, label), NEW r, NEW next, NEW recreate, Begin(c, r, next, recreate),
         label \in {"done", "markStarting", "unregister", "stop", "pull", "clear", "save", "saveSpec"},
         label = "markStarting" => OpOf(c) = "start",
         label \in {"stop", "unregister"} => OpOf(c) # "delete",
         label = "pull" => OpOf(c) # "create",
         label = "saveSpec" => row[TaskOf(c)].status # "running",
         label \in {"save", "pull", "stop"} => r.cid = row[TaskOf(c)].cid,
         label = "save" => /\ r.status = row[TaskOf(c)].status /\ r.addr = row[TaskOf(c)].addr
                           /\ r.spec = row[TaskOf(c)].spec,
         label \in Pending /\ IsUpdate(c) => next.status # "running"
  PROVE  Mirrored'
<1>. DEFINE new == [job[c] EXCEPT !.row = r, !.was = row[TaskOf(c)],
                                  !.next = next, !.recreate = recreate]
<1>1. /\ Inside(c) /\ job[c] \in Job /\ UNCHANGED <<row, docker, site, process>>
      /\ Mirrors(TaskOf(c), row[TaskOf(c)])
  BY UnderWay DEF Reads, Inside, OnlyMoves, Base, Mirrored, Good, RowFree
<1>2. /\ new.op = job[c].op /\ new.task = job[c].task /\ new.row = r /\ new.next = next
      /\ new.was = row[TaskOf(c)]
  BY <1>1 DEF Job
<1>3. job' = [job EXCEPT ![c] = new]
  BY DEF Begin
<1>. HIDE DEF new
<1>4. /\ job'[c] = new /\ at'[c] = label
      /\ \A b \in Clients \ {c} : at'[b] = at[b] /\ job'[b] = job[b]
  BY <1>3 DEF Base, Typed, Go
<1>5. /\ TaskOf(c)' = TaskOf(c) /\ OpOf(c)' = OpOf(c) /\ Inside(c)'
      /\ Calm(docker') /\ Spares(docker, docker', TaskOf(c))
  BY <1>1, <1>2, <1>4 DEF TaskOf, OpOf, Inside, Mirrored, Spares
<1>6. PICK q : q = row[TaskOf(c)]
  OBVIOUS
<1>7. Mirrors(TaskOf(c), q)'
  BY <1>1, <1>5, <1>6 DEF Mirrors, Serves, Sends, Down, Up
<1>8. CASE label = "done"
  <2>1. Good(c)'
    BY <1>1, <1>4, <1>5, <1>6, <1>7, <1>8 DEF Good, RowFree
  <2>. QED
    BY <1>1, <1>4, <1>5, <2>1, WorkMirrors
<1>9. CASE label # "done"
  <2>1. Tuned(c)'
    <3>1. label = "saveSpec" => Down(TaskOf(c))'
      BY <1>6, <1>7, <1>5, <1>1 DEF Mirrors, Sends
    <3>2. ~Withdrawn(c)'
      BY <1>4, <1>5 DEF Withdrawn
    <3>. QED
      BY <1>1, <1>2, <1>4, <1>5, <1>6, <1>7, <1>9, <3>1, <3>2 DEF Tuned, Lapsed, Mirrors
  <2>2. Prepared(c)'
    <3>1. label = "markStarting" => row[TaskOf(c)].status # "running"
      BY DEF Reads, Conflict
    <3>2. IsUpdate(c)' = IsUpdate(c)
      BY <1>5 DEF IsUpdate
    <3>3. /\ job'[c].row = r /\ job'[c].next = next /\ job'[c].was = row[TaskOf(c)]
          /\ row'[TaskOf(c)] = row[TaskOf(c)]
      BY <1>1, <1>2, <1>4
    <3>. QED
      BY <1>4, <1>5, <3>1, <3>2, <3>3 DEF Prepared, Pending
  <2>3. Good(c)'
    BY <1>4, <1>9, <2>1, <2>2 DEF Good, RowFree
  <2>. QED
    BY <1>1, <1>4, <1>5, <2>3, WorkMirrors
<1>. QED
  BY <1>8, <1>9

LEMMA ReadsMirror ==
  ASSUME Base, Mirrored, NEW c \in Clients,
         BeginStart(c) \/ BeginStop(c) \/ BeginRestart(c) \/ BeginDelete(c)
  PROVE  Mirrored'
<1>. DEFINE r == row[TaskOf(c)]
            q == [r EXCEPT !.status = "starting"]
<1>1. Reads(c, OpOf(c)) /\ OnlyMoves /\ ~IsUpdate(c)
  BY DEF Reads, BeginStart, BeginStop, BeginRestart, BeginDelete, IsUpdate
<1>2. PICK label \in {"markStarting", "unregister", "stop", "pull", "clear"}, p \in {q, r} :
        /\ Go(c, label) /\ Begin(c, p, NoRow, FALSE)
        /\ label = "markStarting" => OpOf(c) = "start"
        /\ label # "markStarting" => p = r
        /\ label \in {"stop", "unregister"} => OpOf(c) # "delete"
        /\ label = "pull" => OpOf(c) # "create"
  BY DEF BeginStart, BeginStop, BeginRestart, BeginDelete, Reads
<1>. HIDE DEF q
<1>. QED
  BY <1>1, <1>2, BeginMirrors

LEMMA EditMirrors ==
  ASSUME Base, Mirrored, NEW c \in Clients, BeginUpdate(c) \/ BeginDeploy(c)
  PROVE  Mirrored'
<1>. DEFINE r == row[TaskOf(c)]
<1>1. Reads(c, OpOf(c)) /\ OnlyMoves /\ r \in Row /\ IsUpdate(c) /\ OpOf(c) \notin {"create", "delete"}
  BY UnderWay DEF Reads, BeginUpdate, BeginDeploy, Base, Typed, IsUpdate
<1>2. PICK want, routes, hash, recreate : EditTask(c, want, routes, hash, recreate)
  BY Zenon DEF BeginUpdate, BeginDeploy
<1>. DEFINE edited == [r EXCEPT !.routes = routes, !.hash = hash]
            wanted == WithSpec(edited, want)
<1>3. /\ edited.cid = r.cid /\ edited.status = r.status /\ edited.addr = r.addr
      /\ edited.spec = r.spec /\ wanted.status # "running"
  BY <1>1 DEF Row, WithSpec
<1>4. \/ /\ Begin(c, edited, NoRow, recreate)
         /\ Go(c, "done") \/ Go(c, "save")
      \/ /\ Begin(c, edited, wanted, recreate)
         /\ Go(c, "pull") \/ Go(c, "stop") \/ (Go(c, "saveSpec") /\ r.status # "running")
  <2>1. CASE Begin(c, edited, NoRow, recreate)
             /\ Go(c, IF edited = r THEN "done" ELSE "save")
    BY <2>1
  <2>2. CASE /\ Begin(c, edited, wanted, recreate)
             /\ Go(c, CASE recreate /\ want.image # r.spec.image -> "pull"
                        [] r.status = "running"                  -> "stop"
                        [] OTHER                                 -> "saveSpec")
    BY <2>2
  <2>. QED
    BY <1>2, <2>1, <2>2 DEF EditTask
<1>. HIDE DEF edited, wanted
<1>5. CASE Begin(c, edited, NoRow, recreate)
  BY <1>1, <1>3, <1>4, <1>5, BeginMirrors DEF Pending
<1>6. CASE Begin(c, edited, wanted, recreate) /\ (Go(c, "pull") \/ Go(c, "stop") \/ (Go(c, "saveSpec") /\ r.status # "running"))
  BY <1>1, <1>3, <1>6, BeginMirrors DEF Pending
<1>. QED
  BY <1>4, <1>5, <1>6

\* A new row finds its site empty, and a row that goes leaves it so.
LEMMA RowsMirror ==
  ASSUME Base, Mirrored, Patient, NEW c \in Clients, Reserve(c) \/ DropRow(c)
  PROVE  Mirrored'
<1>. DEFINE t == TaskOf(c)
<1>1. /\ Inside(c) /\ job[c] \in Job /\ t \in Tasks /\ Assigned(c)
      /\ UNCHANGED <<docker, site, process>>
  BY UnderWay DEF Reserve, DropRow, Inside, Base
<1>2. Calm(docker') /\ Spares(docker, docker', t)
  BY <1>1 DEF Mirrored, Spares
<1>3. CASE Reserve(c)
  <2>1. PICK r : /\ SetRow(c, r) /\ Go(c, "pull") /\ row' = [row EXCEPT ![t] = r]
                 /\ \E spec : r = [status |-> "creating", spec |-> spec, cid |-> NoCid,
                                  addr |-> NoAddr, pending |-> FALSE,
                                  routes |-> NoRoutes, hash |-> NoHash]
    BY <1>3 DEF Reserve, Patient
  <2>2. r.status = "creating" /\ r.routes = NoRoutes /\ r.hash = NoHash /\ r.cid = NoCid
    BY <2>1
  <2>3. OpOf(c) = "create" /\ at[c] = "reserve"
    BY <1>1, <1>3 DEF Reserve, Assigned
  <2>4. /\ at'[c] = "pull" /\ job'[c].op = job[c].op /\ job'[c].task = job[c].task
        /\ job'[c].row = r
        /\ \A b \in Clients \ {c} : at'[b] = at[b] /\ job'[b] = job[b]
        /\ \A u \in Tasks : row'[u] = IF u = t THEN r ELSE row[u]
    BY <1>1, <2>1 DEF Go, SetRow, Base, Typed, Job
  <2>5. SiteOf[t] \in Sites
    BY <1>1, RegistryAssumption
  <2>6. site[SiteOf[t]] = EmptySite
    BY <1>3, <2>5 DEF Reserve, NameTaken, Base, Owned, SitesHaveRows
  <2>7. TaskOf(c)' = t /\ OpOf(c)' = OpOf(c) /\ IsUpdate(c)' = IsUpdate(c) /\ Inside(c)'
    BY <2>4 DEF TaskOf, OpOf, IsUpdate, Inside
  <2>8. Mirrors(t, r)'
    BY <1>1, <2>2, <2>6, <2>7 DEF Mirrors, Serves, Sends, Down, EmptySite
  <2>9. Tuned(c)'
    BY <1>1, <2>3, <2>4, <2>7, <2>8 DEF Tuned, Withdrawn, Lapsed, Mirrors
  <2>10. Prepared(c)'
    BY <1>1, <2>2, <2>3, <2>4, <2>7 DEF Prepared, IsUpdate
  <2>11. Good(c)'
    BY <2>4, <2>9, <2>10 DEF Good, RowFree
  <2>. QED
    BY <1>1, <1>2, <2>4, <2>7, <2>11, WorkMirrors
<1>4. CASE DropRow(c)
  <2>1. Go(c, "done") /\ UNCHANGED job /\ row' = [row EXCEPT ![t] = NoRow] /\ at[c] = "drop"
    BY <1>4 DEF DropRow, Patient
  <2>2. /\ at'[c] = "done" /\ \A b \in Clients \ {c} : at'[b] = at[b] /\ job'[b] = job[b]
        /\ \A u \in Tasks : row'[u] = IF u = t THEN NoRow ELSE row[u]
    BY <1>1, <2>1 DEF Go, Base, Typed
  <2>3. TaskOf(c)' = t /\ Inside(c)'
    BY <2>1, <2>2 DEF TaskOf, Inside
  <2>4. Good(c)'
    BY <1>1, <2>2, <2>3 DEF Good, RowFree
  <2>. QED
    BY <1>1, <1>2, <2>2, <2>3, <2>4, WorkMirrors
<1>. QED
  BY <1>3, <1>4

\* A request comes, enters the mutex, and leaves it.
LEMMA AdmissionMirrors ==
  ASSUME Base, Mirrored, NEW c \in Clients, Request(c) \/ Enter(c) \/ Unlock(c)
  PROVE  Mirrored'
<1>1. /\ UNCHANGED <<row, docker, site, process>> /\ at'[c] \in RowFree
      /\ \A b \in Clients \ {c} : at'[b] = at[b] /\ job'[b] = job[b]
  BY DEF Request, Enter, Unlock, OnlyMoves, Go, Base, Typed, RowFree
<1>2. phase = "up"
  BY UnderWay DEF Request, Enter, Unlock, Base
<1>3. ASSUME NEW b \in Clients \ {c}, Inside(b)
      PROVE  Good(b)' /\ TaskOf(b)' = TaskOf(b) /\ Inside(b)'
  <2>1. UNCHANGED <<row, docker, site>> /\ at'[b] = at[b] /\ job'[b] = job[b]
    BY <1>1
  <2>2. TaskOf(b)' = TaskOf(b) /\ OpOf(b)' = OpOf(b) /\ IsUpdate(b)' = IsUpdate(b) /\ Inside(b)'
    BY <1>3, <2>1 DEF TaskOf, OpOf, IsUpdate, Inside
  <2>3. Tuned(b)' = Tuned(b)
    BY <2>1 DEF Tuned, Withdrawn, Lapsed, Serves, Sends, Down, Up, Alike, TaskOf, OpOf
  <2>4. Prepared(b)' = Prepared(b)
    BY <2>1 DEF Prepared, IsUpdate, OpOf, TaskOf, Up
  <2>5. Mirrors(TaskOf(b), row[TaskOf(b)])' = Mirrors(TaskOf(b), row[TaskOf(b)])
    BY <2>1 DEF Mirrors, Serves, Sends, Down, Up, TaskOf
  <2>6. Good(b)' = Good(b)
    BY <2>1, <2>2, <2>3, <2>4, <2>5 DEF Good
  <2>. QED
    BY <1>3, <2>2, <2>6 DEF Mirrored
<1>4. ASSUME NEW u \in Tasks, NEW r
      PROVE  Mirrors(u, r) => Mirrors(u, r)'
  BY <1>1 DEF Mirrors, Serves, Sends, Down, Up
<1>5. Inside(c)' => Good(c)'
  <2>1. Inside(c)' => TaskOf(c)' = TaskOf(c) /\ Enter(c)
    BY DEF Request, Enter, Unlock, Inside, Go, Base, Typed, TaskOf
  <2>2. ASSUME Enter(c), row[TaskOf(c)] # NoRow
        PROVE  TaskOf(c) \in Tasks /\ Mirrors(TaskOf(c), row[TaskOf(c)])
    <3>1. TaskOf(c) \in Tasks /\ holder[TaskOf(c)] = {}
      BY <2>2, UnderWay DEF Enter, Base
    <3>. QED
      BY <1>2, <2>2, <3>1 DEF Mirrored, Base, Mutex
  <2>3. ASSUME Enter(c), row[TaskOf(c)] # NoRow
        PROVE  \A r : r = row[TaskOf(c)] => Mirrors(TaskOf(c), r)
    BY <2>2, <2>3
  <2>4. ASSUME Inside(c)', row'[TaskOf(c)'] # NoRow
        PROVE  Mirrors(TaskOf(c), row[TaskOf(c)])'
    <3>1. PICK t, r : t = TaskOf(c) /\ r = row[t]
      OBVIOUS
    <3>2. Mirrors(t, r)'
      BY <1>1, <1>4, <2>1, <2>2, <2>4, <3>1
    <3>. QED
      BY <1>1, <2>1, <2>4, <3>1, <3>2
  <2>. QED
    BY <1>1, <2>4 DEF Good
<1>6. ASSUME NEW u \in Tasks, row'[u] # NoRow
      PROVE  Mirrors(u, row[u])' \/ \E b \in Clients : Inside(b)' /\ TaskOf(b)' = u
  <2>1. PICK r : r = row[u]
    OBVIOUS
  <2>2. Mirrors(u, r) => Mirrors(u, row[u])'
    <3>1. Mirrors(u, r) => Mirrors(u, r)'
      BY <1>4
    <3>. QED
      BY <1>1, <2>1, <3>1
  <2>3. ASSUME Inside(c), TaskOf(c) = u
        PROVE  Mirrors(u, r)
    <3>1. at[c] \in RowFree
      BY <2>3 DEF Request, Enter, Unlock, Inside, RowFree
    <3>. QED
      BY <1>1, <1>6, <2>1, <2>3, <3>1 DEF Mirrored, Good
  <2>. QED
    BY <1>1, <1>2, <1>3, <1>6, <2>1, <2>2, <2>3 DEF Mirrored
<1>. QED
  BY <1>1, <1>2, <1>3, <1>5, <1>6 DEF Mirrored, Inside, process

\* Reconcile gives each task in turn its routes, its lock and, if its container is
\* reachable, its hop, and saves the row it derived them from.
LEMMA ReconcileMirrors ==
  ASSUME Base, Mirrored, Patient, NEW t \in Tasks, ReconcileTask(t)
  PROVE  Mirrored'
<1>. DEFINE r == row[t]
            k == r.cid
            s == SiteOf[t]
            base == WithLock(WithRoutes(site, t, r.routes), t, r.hash)
<1>1. /\ phase = "boot" /\ r \in Row /\ r # NoRow /\ t \in todo /\ todo' = todo \ {t}
      /\ UNCHANGED <<row, docker, holder, at, job, phase>> /\ repaired[t] = NoRow
      /\ s \in Sites /\ site[s] \in Site
  BY RegistryAssumption, TaskDataAssumption
  DEF ReconcileTask, Saving, Base, Typed, BootAlone
<1>2. \A b \in Clients : ~Inside(b)
  BY <1>1 DEF Base, Typed, BootAlone, Inside
<1>3. /\ base[s].routes = r.routes /\ base[s].lock = r.hash /\ base \in [Sites -> Site]
      /\ \A u \in Sites \ {s} : base[u] = site[u]
  BY <1>1 DEF Base, Typed, WithLock, WithRoutes, Site, Row
<1>4. PICK p, hop : /\ repaired' = [repaired EXCEPT ![t] = p]
                    /\ p.routes = r.routes /\ p.hash = r.hash /\ p.spec = r.spec /\ p.cid = k
                    /\ p # NoRow
                    /\ site' = [base EXCEPT ![s] = [@ EXCEPT !.task = hop]]
                    /\ p.status = "running" =>
                         /\ hop = [addr |-> p.addr, conf |-> p.spec.conf]
                         /\ IsRunning(docker, k) /\ docker[k].addr = p.addr
                    /\ p.status # "running" => hop = NoHop
  <2>. HIDE DEF base
  <2>1. CASE ~Exists(docker, k)
    <3>1. PICK p : p = [r EXCEPT !.status = "unknown", !.addr = NoAddr]
      OBVIOUS
    <3>2. /\ p.routes = r.routes /\ p.hash = r.hash /\ p.spec = r.spec /\ p.cid = k
          /\ p.status = "unknown" /\ p \in Row
      BY <1>1, <3>1 DEF Row, Statuses
    <3>3. repaired' = [repaired EXCEPT ![t] = p] /\ site' = Unregistered(base, t)
      BY <2>1, <3>1 DEF ReconcileTask, Patient, base
    <3>. QED
      BY <3>2, <3>3, TaskDataAssumption DEF Unregistered
  <2>2. CASE Exists(docker, k)
    <3>1. PICK status \in InspectStatuses(docker, k) :
            /\ repaired' = [repaired EXCEPT ![t] = [r EXCEPT !.status = status, !.addr = docker[k].addr]]
            /\ site' = IF Reachable(docker, k)
                         THEN Registered(base, t, docker[k].addr, r.spec.conf)
                         ELSE Unregistered(base, t)
      BY <2>2 DEF ReconcileTask, Patient, base
    <3>2. PICK p : p = [r EXCEPT !.status = status, !.addr = docker[k].addr]
      OBVIOUS
    <3>3. k \in Cids /\ docker[k] \in Container
      BY <2>2 DEF Exists, Base, Typed, DockerStates
    <3>4. /\ docker[k].state \in {"running", "created", "exited"}
          /\ docker[k].state = "running" => docker[k].addr # NoAddr
      BY <2>2, <3>3 DEF Mirrored, Calm, Container, ContainerStates
    <3>5. /\ docker[k].state = "running" => InspectStatuses(docker, k) = {"running"}
          /\ docker[k].state = "created" => InspectStatuses(docker, k) = {"starting"}
          /\ docker[k].state = "exited" => InspectStatuses(docker, k) = {"stopped"}
      BY DEF InspectStatuses
    <3>6. /\ status \in Statuses /\ (status = "running" <=> docker[k].state = "running")
      BY <3>1, <3>4, <3>5 DEF Statuses
    <3>7. /\ p.routes = r.routes /\ p.hash = r.hash /\ p.spec = r.spec /\ p.cid = k
          /\ p.status = status /\ p.addr = docker[k].addr /\ p \in Row
      BY <1>1, <3>2, <3>3, <3>6 DEF Row, Container
    <3>8. p # NoRow
      BY <3>7, TaskDataAssumption
    <3>9. Reachable(docker, k) <=> status = "running"
      BY <2>2, <3>4, <3>6 DEF Reachable, IsRunning
    <3>10. CASE status = "running"
      <4>1. site' = Registered(base, t, p.addr, p.spec.conf)
        BY <3>1, <3>7, <3>9, <3>10
      <4>. QED
        BY <2>2, <3>1, <3>2, <3>6, <3>7, <3>8, <3>10, <4>1 DEF Registered, IsRunning
    <3>11. CASE status # "running"
      <4>1. site' = Unregistered(base, t)
        BY <3>1, <3>9, <3>11
      <4>. QED
        BY <3>1, <3>2, <3>7, <3>8, <3>11, <4>1 DEF Unregistered
    <3>. QED
      BY <3>10, <3>11
  <2>. QED
    BY <2>1, <2>2
<1>5. /\ site'[s].task = hop /\ site'[s].routes = r.routes /\ site'[s].lock = r.hash
      /\ \A u \in Sites \ {s} : site'[u] = site[u]
  BY <1>1, <1>3, <1>4 DEF Site
<1>6. /\ repaired'[t] = p /\ \A u \in Tasks \ {t} : repaired'[u] = repaired[u]
  BY <1>4 DEF Base, Typed
<1>. HIDE DEF base
<1>7. Mirrors(t, p)'
  BY <1>1, <1>4, <1>5 DEF Mirrors, Serves, Sends, Down, Up
<1>8. ASSUME NEW u \in Tasks, row'[u] # NoRow, u \notin todo'
      PROVE  Mirrors(u, Checked(u))'
  <2>1. CASE u = t
    <3>1. Checked(u)' = p
      BY <1>4, <1>6, <2>1 DEF Checked
    <3>. QED
      BY <1>7, <2>1, <3>1
  <2>2. CASE u # t
    <3>1. row[u] # NoRow /\ u \notin todo /\ Checked(u)' = Checked(u)
      BY <1>1, <1>6, <1>8, <2>2 DEF Checked
    <3>2. PICK q : q = Checked(u)
      OBVIOUS
    <3>3. SiteOf[u] \in Sites \ {s}
      BY <1>1, <2>2, <3>1, RegistryAssumption DEF Base, Owned
    <3>4. Mirrors(u, q)
      BY <1>1, <3>1, <3>2 DEF Mirrored
    <3>5. Mirrors(u, q)'
      BY <1>1, <1>5, <3>3, <3>4 DEF Mirrors, Serves, Sends, Down, Up
    <3>. QED
      BY <3>1, <3>2, <3>5
  <2>. QED
    BY <2>1, <2>2
<1>. QED
  BY <1>1, <1>2, <1>8 DEF Mirrored, Inside

\* Boreas stops, starts again and listens; a container left alone stays as it is.
LEMMA ProcessMirrors ==
  ASSUME Base, Mirrored, Patient,
         \/ Crash \/ Startup
         \/ \E k \in Cids : Exit(k) \/ Revive(k) \/ Interfere(k)
  PROVE  Mirrored'
<1>1. ASSUME NEW k \in Cids, Exit(k) \/ Revive(k) \/ Interfere(k)
      PROVE  FALSE
  BY <1>1 DEF Exit, Revive, Interfere, Patient, Mirrored, Calm
<1>2. CASE Crash
  BY <1>2 DEF Crash, Mirrored, Inside
<1>3. CASE Boot
  <2>1. /\ phase' = "boot" /\ todo' = {t \in Tasks : row[t] # NoRow}
        /\ UNCHANGED <<row, docker, at>> /\ \A c \in Clients : ~Inside(c)
    BY <1>3 DEF Boot, Patient, Base, Typed, BootAlone, Inside
  <2>. QED
    BY <2>1 DEF Mirrored, Inside
<1>4. CASE Listen
  <2>1. /\ phase = "boot" /\ phase' = "up" /\ todo = {} /\ Saving = {}
        /\ UNCHANGED <<row, docker, site, at>> /\ \A c \in Clients : ~Inside(c)
    BY <1>4 DEF Listen, Base, Typed, BootAlone, Inside
  <2>2. ASSUME NEW u \in Tasks, row'[u] # NoRow
        PROVE  Mirrors(u, row[u])'
    <3>1. PICK r : r = row[u]
      OBVIOUS
    <3>2. Mirrors(u, r)
      BY <2>1, <2>2, <3>1 DEF Mirrored, Checked, Saving
    <3>3. Mirrors(u, r)'
      BY <2>1, <3>2 DEF Mirrors, Serves, Sends, Down, Up
    <3>. QED
      BY <2>1, <3>1, <3>3
  <2>. QED
    BY <2>1, <2>2 DEF Mirrored, Inside
<1>5. ASSUME NEW t \in Tasks, ReconcileSave(t)
      PROVE  Mirrored'
  <2>1. /\ phase = "boot" /\ repaired[t] # NoRow /\ row' = [row EXCEPT ![t] = repaired[t]]
        /\ repaired' = [repaired EXCEPT ![t] = NoRow]
        /\ UNCHANGED <<docker, site, at, phase, todo>> /\ \A c \in Clients : ~Inside(c)
    BY <1>5 DEF ReconcileSave, Saving, Patient, Base, Typed, BootAlone, Inside
  <2>2. ASSUME NEW u \in Tasks, row'[u] # NoRow, u \notin todo'
        PROVE  Mirrors(u, Checked(u))'
    <3>1. PICK q : q = Checked(u)
      OBVIOUS
    <3>2. row[u] # NoRow /\ Checked(u)' = q
      <4>1. CASE u = t
        BY <2>1, <3>1, <4>1, TaskDataAssumption DEF Checked, Base, Typed, BootAlone
      <4>2. CASE u # t
        <5>1. row'[u] = row[u] /\ repaired'[u] = repaired[u]
          BY <2>1, <4>2 DEF Base, Typed
        <5>. QED
          BY <2>2, <3>1, <5>1 DEF Checked
      <4>. QED
        BY <4>1, <4>2
    <3>3. Mirrors(u, q)
      BY <2>1, <2>2, <3>1, <3>2 DEF Mirrored
    <3>4. Mirrors(u, q)'
      BY <2>1, <3>3 DEF Mirrors, Serves, Sends, Down, Up
    <3>. QED
      BY <3>2, <3>4
  <2>. QED
    BY <2>1, <2>2 DEF Mirrored, Inside
<1>. QED
  BY <1>1, <1>2, <1>3, <1>4, <1>5, ReconcileMirrors DEF Startup

LEMMA NextMirrors ==
  ASSUME Base, Mirrored, Patient, [Next]_vars
  PROVE  Mirrored'
<1>1. ASSUME NEW c \in Clients, Step(c)
      PROVE  Mirrored'
  BY <1>1, AdmissionMirrors, PersistActionsMirror, MovesMirror, DockerCallsMirror,
     CreationsMirror, RegistryMirrors, ReadsMirror, EditMirrors, RowsMirror DEF Step
<1>2. ASSUME UNCHANGED vars
      PROVE  Mirrored'
  <2>1. UNCHANGED <<row, docker, site, at, job, phase, todo, repaired>>
    BY <1>2 DEF vars
  <2>2. \A t, r : Serves(t, r)' = Serves(t, r) /\ Sends(t, r)' = Sends(t, r)
    BY <2>1 DEF Serves, Sends, Down, Up
  <2>3. \A t : Mirrors(t, row[t])' = Mirrors(t, row[t]) /\ Mirrors(t, Checked(t))' = Mirrors(t, Checked(t))
    BY <2>1 DEF Mirrors, Checked, Serves, Sends, Down, Up
  <2>4. ASSUME NEW c \in Clients
        PROVE  /\ Inside(c)' = Inside(c) /\ TaskOf(c)' = TaskOf(c)
               /\ Tuned(c)' = Tuned(c) /\ Prepared(c)' = Prepared(c)
    BY <2>1
    DEF Inside, TaskOf, OpOf, IsUpdate, Tuned, Prepared, Serves, Sends, Down, Up, Withdrawn,
        Lapsed, Alike
  <2>5. \A c \in Clients : Good(c)' = Good(c)
    BY <2>1, <2>3, <2>4 DEF Good
  <2>. QED
    BY <2>1, <2>3, <2>4, <2>5 DEF Mirrored
<1>. QED
  BY <1>1, <1>2, AdmissionMirrors, ProcessMirrors DEF Next

LEMMA MirroredHolds == Patient => (Spec => [](Base /\ Mirrored))
<1>. SUFFICES ASSUME Patient
              PROVE  Spec => [](Base /\ Mirrored)
  OBVIOUS
<1>1. Init => Base /\ Mirrored
  <2>1. Init => Mirrored
    BY DEF Init, Mirrored, Calm, Exists, Inside
  <2>. QED
    BY <2>1, InitBase
<1>2. Base /\ Mirrored /\ [Next]_vars => (Base /\ Mirrored)'
  BY NextBase, NextMirrors
<1>. QED
  BY <1>1, <1>2, PTL DEF Spec

\* Between requests the row and the proxy say the same of the task.
LEMMA QuietMirrors ==
  ASSUME Base, Mirrored, NEW t \in Tasks, Quiet(t), row[t] # NoRow
  PROVE  Mirrors(t, row[t])
  BY DEF Base, Mirrored, Mutex, Quiet

\* The proxy's table, built step by step beside the one in Postgres, agrees with it
\* between requests: a hop exactly while the row says running, at the row's address
\* and port, and the row's routes and lock.  Pulls may fail, containers may be late,
\* and Boreas may crash at any step, for Reconcile builds the table anew; a lost save,
\* a Docker call that fails, or a container that goes by itself breaks the agreement.
THEOREM ProxyMirrorsTable == Patient => (Spec => []RegistryMirrorsRow)
<1>1. Base /\ Mirrored => RegistryMirrorsRow
  BY QuietMirrors DEF RegistryMirrorsRow, Mirrors, Serves, Sends, Down
<1>. QED
  BY <1>1, MirroredHolds, PTL

\* Under the same faults the proxy sends no request to an address that has gone to
\* another container: an operation unregisters the task before it removes or replaces
\* the container (Restart, Delete) or right after it has stopped it (Stop, Update), and
\* registers the address that waitReady got from the container it started.
THEOREM HopsCurrent == Patient => (Spec => []HopIsCurrent)
<1>1. Base /\ Mirrored => HopIsCurrent
  <2>. SUFFICES ASSUME Base, Mirrored, NEW t \in Tasks, Quiet(t), row[t] # NoRow,
                       site[SiteOf[t]].task # NoHop
                PROVE  IsRunning(docker, row[t].cid) /\ docker[row[t].cid].addr = site[SiteOf[t]].task.addr
    BY DEF HopIsCurrent
  <2>1. Sends(t, row[t])
    BY QuietMirrors DEF Mirrors
  <2>2. /\ site[SiteOf[t]].task = [addr |-> row[t].addr, conf |-> row[t].spec.conf]
        /\ Up(row[t])
    BY <2>1 DEF Sends, Down
  <2>. QED
    BY <2>2 DEF Up
<1>. QED
  BY <1>1, MirroredHolds, PTL
=============================================================================
