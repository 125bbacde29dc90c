------------------------ MODULE ProjectAccessProofs ------------------------
(***************************************************************************)
(* Proofs about ProjectAccess, for any users, projects, tasks and requests *)
(* at once: the tables hold together, a project loses its last owner in    *)
(* two ways only, and who may reach what has one answer wherever it is     *)
(* asked.                                                                  *)
(***************************************************************************)
EXTENDS ProjectAccess, TLAPS

Tables ==
  /\ accounts \subseteq Users
  /\ projects \in [Slugs -> ProjectIds \cup {NoProject}]
  /\ tasks \in [ProjectIds -> [Names -> TaskIds \cup {NoTask}]]
  /\ members \in [ProjectIds -> [Users -> Roles]]
  /\ grants \in [TaskIds -> [Users -> GrantRoles \cup {NoRole}]]

ProjectsOnce == \A r, s \in Slugs : projects[r] = projects[s] /\ projects[r] # NoProject => r = s

TasksOnce ==
  \A p \in ProjectIds, n \in Names : HasTask(p, n) =>
    \A q \in ProjectIds, k \in Names : TaskAt(q, k) = TaskAt(p, n) => q = p /\ k = n

TasksHaveProjects == \A p \in ProjectIds, n \in Names : HasTask(p, n) => LiveProject(p)

MembersRefer ==
  \A p \in ProjectIds, u \in Users : members[p][u] # NoRole => LiveProject(p) /\ u \in accounts

GrantsRefer ==
  \A t \in TaskIds, u \in Users : grants[t][u] # NoRole => LiveTask(t) /\ u \in accounts

\* What holds of the tables, whatever the requests.
TablesInv == Tables /\ ProjectsOnce /\ TasksOnce /\ TasksHaveProjects /\ MembersRefer /\ GrantsRefer

\* A request about to take a role from an owner has not counted that one alone,
\* and one that has made a task has its name.
JobFits(j) ==
  /\ j.at = "member" /\ j.role # "owner" => j.seen # {j.user}
  /\ j.at = "made" => j.name \in Names

JobsInv == job \in [Clients -> Job \cup {Idle}] /\ \A c \in Clients : job[c] # Idle => JobFits(job[c])

LEMMA InvParts == TypeOK <=> TablesInv /\ job \in [Clients -> Job \cup {Idle}]
BY DEF TypeOK, TablesInv, Tables, ProjectsOnce, TasksOnce, TasksHaveProjects, MembersRefer, GrantsRefer

(***************************************************************************)
(* Requests.                                                               *)
(***************************************************************************)
LEMMA JobFields ==
  ASSUME NEW j \in Job
  PROVE  /\ j.at \in {"in", "made", "owner", "member", "grant", "assign", "drop"}
         /\ j.at \in {"in", "made", "owner", "member", "drop"} => j.project \in ProjectIds
         /\ j.at \in {"in", "made", "owner", "member", "grant"} => j.user \in Users
         /\ j.at \in {"in", "made"} => j.slug \in Slugs /\ j.name \in Paths /\ j.role \in ProjectRoles
         /\ j.at = "member" => j.role \in Roles /\ j.seen \in SUBSET Users
         /\ j.at = "grant" => j.role \in {NoRole} \cup GrantRoles
         /\ j.at \in {"grant", "assign"} => j.task \in TaskIds
         /\ j.at = "assign" => j.added \in SUBSET Users /\ j.removed \in SUBSET Users
BY DEF Job

LEMMA Jobs ==
  /\ \A u \in Users, s \in Slugs, n \in Paths, p \in ProjectIds, r \in ProjectRoles :
       [at |-> "in", user |-> u, slug |-> s, name |-> n, project |-> p, role |-> r] \in Job
  /\ \A u \in Users, p \in ProjectIds : [at |-> "owner", user |-> u, project |-> p] \in Job
  /\ \A u \in Users, p \in ProjectIds, r \in Roles, seen \in SUBSET Users :
       [at |-> "member", user |-> u, project |-> p, role |-> r, seen |-> seen] \in Job
  /\ \A u \in Users, t \in TaskIds, r \in {NoRole} \cup GrantRoles :
       [at |-> "grant", user |-> u, task |-> t, role |-> r] \in Job
  /\ \A t \in TaskIds, added, removed \in SUBSET Users :
       [at |-> "assign", task |-> t, added |-> added, removed |-> removed] \in Job
  /\ \A p \in ProjectIds : [at |-> "drop", project |-> p] \in Job
BY DEF Job

LEMMA Made ==
  ASSUME NEW j \in Job, j.at = "in", NEW n \in Names
  PROVE  [j EXCEPT !.at = "made", !.name = n] \in Job /\ JobFits([j EXCEPT !.at = "made", !.name = n])
BY DEF Job, JobFits, Paths

LEMMA AtJob ==
  ASSUME JobsInv, NEW c \in Clients, NEW l, At(c, l)
  PROVE  job[c] \in Job /\ job[c].at = l /\ JobFits(job[c])
BY DEF JobsInv, At

\* A request goes on with a job that fits.
LEMMA JobsGoOn ==
  ASSUME JobsInv, NEW c \in Clients, NEW j, (j \in Job /\ JobFits(j)) \/ j = Idle, Go(c, j)
  PROVE  JobsInv'
<1>1. job' = [job EXCEPT ![c] = j]
  BY DEF Go
<1>2. \A d \in Clients : job'[d] = IF d = c THEN j ELSE job[d]
  BY <1>1 DEF JobsInv
<1>3. job' \in [Clients -> Job \cup {Idle}]
  BY <1>1 DEF JobsInv
<1>. QED
  BY <1>2, <1>3 DEF JobsInv

LEMMA JobsEnd ==
  ASSUME JobsInv, NEW c \in Clients, End(c)
  PROVE  JobsInv'
BY JobsGoOn DEF End

LEMMA JobsStay ==
  ASSUME JobsInv, UNCHANGED job
  PROVE  JobsInv'
BY DEF JobsInv

LEMMA TablesStay ==
  ASSUME TablesInv, UNCHANGED tables
  PROVE  TablesInv'
BY DEF TablesInv, Tables, ProjectsOnce, TasksOnce, TasksHaveProjects, MembersRefer, GrantsRefer,
       HasTask, TaskAt, LiveProject, LiveTask, tables

LEMMA AssigningJob ==
  ASSUME NEW t \in TaskIds, NEW added \in SUBSET Users, NEW removed \in SUBSET Users
  PROVE  LET j == Assigning(t, added, removed) IN (j \in Job /\ JobFits(j)) \/ j = Idle
BY Jobs DEF Assigning, JobFits

(***************************************************************************)
(* The rows of the tables.                                                 *)
(***************************************************************************)
\* One member's row is written, of an account in a project.
LEMMA MemberWritten ==
  ASSUME TablesInv, NEW p \in ProjectIds, NEW u \in accounts, NEW r \in Roles, LiveProject(p),
         members' = [members EXCEPT ![p][u] = r], UNCHANGED <<accounts, projects, tasks, grants>>
  PROVE  TablesInv'
<1>1. Tables' /\ MembersRefer'
  BY DEF TablesInv, Tables, MembersRefer, LiveProject
<1>. QED
  BY <1>1 DEF TablesInv, ProjectsOnce, TasksOnce, TasksHaveProjects, GrantsRefer,
              HasTask, TaskAt, LiveProject, LiveTask

\* One grant is written, of an account on a task, or taken away.
LEMMA GrantWritten ==
  ASSUME TablesInv, NEW t \in TaskIds, NEW u \in Users, NEW r \in GrantRoles \cup {NoRole},
         r # NoRole => LiveTask(t) /\ u \in accounts,
         grants' = [grants EXCEPT ![t][u] = r], UNCHANGED <<accounts, projects, tasks, members>>
  PROVE  TablesInv'
<1>1. Tables' /\ GrantsRefer'
  BY DEF TablesInv, Tables, GrantsRefer, LiveTask
<1>. QED
  BY <1>1 DEF TablesInv, ProjectsOnce, TasksOnce, TasksHaveProjects, MembersRefer,
              HasTask, TaskAt, LiveProject, LiveTask

LEMMA InitInv == Init => TablesInv /\ JobsInv
<1>. SUFFICES ASSUME Init PROVE TablesInv /\ JobsInv
  OBVIOUS
<1>1. Tables
  BY DEF Init, Tables, NoTasks, NoMembers, Roles
<1>2. \A p \in ProjectIds, n \in Names : ~HasTask(p, n)
  BY DEF Init, HasTask, TaskAt, NoTasks
<1>3. TablesInv
  BY <1>1, <1>2 DEF Init, TablesInv, ProjectsOnce, TasksOnce, TasksHaveProjects, MembersRefer,
                    GrantsRefer, NoMembers
<1>. QED
  BY <1>3 DEF Init, JobsInv

(***************************************************************************)
(* The actions.                                                            *)
(***************************************************************************)
Inv == TablesInv /\ JobsInv

\* The project that a request's slug names now.
LEMMA SlugProject ==
  ASSUME Inv, NEW c \in Clients, At(c, "in"), projects[job[c].slug] # NoProject
  PROVE  /\ projects[job[c].slug] \in ProjectIds
         /\ LiveProject(projects[job[c].slug])
<1>1. job[c].slug \in Slugs
  BY AtJob, JobFields DEF Inv
<1>. QED
  BY <1>1 DEF Inv, TablesInv, Tables, LiveProject

\* A request let in for a task has that task's name.
LEMMA InName ==
  ASSUME Inv, NEW c \in Clients, NEW route \in DOMAIN TaskRoutes \ {"createTask", "listTasks"},
         In(c, route)
  PROVE  At(c, "in") /\ job[c].name \in Names /\ job[c].project \in ProjectIds
<1>1. At(c, "in") /\ job[c].name # NoName
  BY DEF In
<1>. QED
  BY <1>1, AtJob, JobFields DEF Inv, Paths

LEMMA AuthorizeKeeps ==
  ASSUME Inv, NEW c \in Clients, NEW x \in Users, NEW s \in Slugs, NEW n \in Paths,
         Authorize(c, x, s, n)
  PROVE  Inv'
<1>. DEFINE p == projects[s]
            j == [at |-> "in", user |-> x, slug |-> s, name |-> n, project |-> p, role |-> Access(x, p, n)]
<1>1. p \in ProjectIds /\ Access(x, p, n) # NoRole
  BY DEF Authorize, Inv, TablesInv, Tables
<1>2. Access(x, p, n) \in ProjectRoles
  <2>1. members[p][x] \in Roles
    BY <1>1 DEF Inv, TablesInv, Tables
  <2>2. ASSUME NEW k \in Names
        PROVE  GrantOn(x, p, k) \in GrantRoles \cup {NoRole}
    BY <1>1 DEF GrantOn, HasTask, TaskAt, Inv, TablesInv, Tables
  <2>3. GrantedRole(x, p, n) \in GrantRoles \cup {NoRole}
    BY <2>2 DEF GrantedRole, Paths, GrantRoles
  <2>4. Access(x, p, n) \in Roles
    BY <2>1, <2>3 DEF Access, Higher, Roles, ProjectRoles
  <2>. QED
    BY <1>1, <2>4 DEF Roles
<1>3. j \in Job /\ JobFits(j)
  BY <1>1, <1>2, Jobs DEF JobFits
<1>. HIDE DEF j
<1>4. Go(c, j) /\ UNCHANGED tables
  BY DEF Authorize, Reads, j
<1>. QED
  BY <1>3, <1>4, JobsGoOn, TablesStay DEF Inv

LEMMA OnProjectsKeeps ==
  ASSUME Inv, NEW c \in Clients, OnProjects(c)
  PROVE  Inv'
<1>1. ASSUME NEW x \in Users, NEW s \in Slugs, NEW p \in ProjectIds, CreateProject(c, x, s, p)
      PROVE  Inv'
  <2>1. /\ projects' = [projects EXCEPT ![s] = p] /\ projects[s] = NoProject
        /\ UNCHANGED <<accounts, tasks, members, grants>>
    BY <1>1 DEF CreateProject
  <2>2. \A r \in Slugs : projects[r] # p
    BY <1>1 DEF CreateProject, HeldIds
  <2>3. \A q \in ProjectIds : LiveProject(q) => LiveProject(q)'
    <3>. SUFFICES ASSUME NEW q \in ProjectIds, NEW r \in Slugs, projects[r] = q
         PROVE  \E t \in Slugs : projects'[t] = q
      BY DEF LiveProject
    <3>1. r # s
      BY <2>1, ProjectAccessAssumption
    <3>. QED
      BY <2>1, <3>1 DEF Inv, TablesInv, Tables
  <2>4. Tables' /\ ProjectsOnce'
    BY <2>1, <2>2 DEF Inv, TablesInv, Tables, ProjectsOnce
  <2>5. TasksHaveProjects' /\ MembersRefer'
    BY <2>1, <2>3 DEF Inv, TablesInv, TasksHaveProjects, MembersRefer, HasTask, TaskAt
  <2>6. TablesInv'
    BY <2>1, <2>4, <2>5 DEF Inv, TablesInv, TasksOnce, GrantsRefer, HasTask, TaskAt, LiveTask
  <2>. DEFINE j == [at |-> "owner", user |-> x, project |-> p]
  <2>7. j \in Job /\ JobFits(j)
    BY Jobs DEF JobFits
  <2>. HIDE DEF j
  <2>8. Go(c, j)
    BY <1>1 DEF CreateProject, j
  <2>. QED
    BY <2>6, <2>7, <2>8, JobsGoOn DEF Inv
<1>2. ASSUME AddOwner(c)
      PROVE  Inv'
  <2>1. job[c].project \in ProjectIds /\ job[c].user \in accounts
    BY <1>2, AtJob, JobFields DEF AddOwner, Inv
  <2>2. TablesInv'
    BY <1>2, <2>1, MemberWritten DEF AddOwner, Inv, Roles, ProjectRoles
  <2>. QED
    BY <1>2, <2>2, JobsEnd DEF AddOwner, Inv
<1>3. ASSUME DeleteProject(c)
      PROVE  Inv'
  <2>. DEFINE j == [at |-> "drop", project |-> projects[job[c].slug]]
  <2>1. j \in Job /\ JobFits(j)
    BY <1>3, SlugProject, Jobs DEF DeleteProject, In, JobFits
  <2>. HIDE DEF j
  <2>2. Go(c, j) /\ UNCHANGED tables
    BY <1>3 DEF DeleteProject, Reads, j
  <2>. QED
    BY <2>1, <2>2, JobsGoOn, TablesStay DEF Inv
<1>4. ASSUME DropProject(c)
      PROVE  Inv'
  <2>. PICK p \in ProjectIds : p = job[c].project
    BY <1>4, AtJob, JobFields DEF DropProject, Inv
  <2>1. /\ projects' = [s \in Slugs |-> IF projects[s] = p THEN NoProject ELSE projects[s]]
        /\ members' = [members EXCEPT ![p] = NoMembers] /\ tasks[p] = NoTasks
        /\ UNCHANGED <<accounts, tasks, grants>>
    BY <1>4 DEF DropProject
  <2>2. Tables' /\ ProjectsOnce'
    BY <2>1 DEF Inv, TablesInv, Tables, ProjectsOnce, NoMembers, Roles
  <2>3. \A q \in ProjectIds : LiveProject(q) /\ q # p => LiveProject(q)'
    BY <2>1 DEF LiveProject
  <2>4. \A n \in Names : ~HasTask(p, n)
    BY <2>1 DEF HasTask, TaskAt, NoTasks
  <2>5. TasksHaveProjects'
    BY <2>1, <2>3, <2>4 DEF Inv, TablesInv, TasksHaveProjects, HasTask, TaskAt
  <2>6. MembersRefer'
    BY <2>1, <2>3 DEF Inv, TablesInv, Tables, MembersRefer, NoMembers
  <2>7. TablesInv'
    BY <2>1, <2>2, <2>5, <2>6 DEF Inv, TablesInv, TasksOnce, GrantsRefer, HasTask, TaskAt, LiveTask
  <2>. QED
    BY <1>4, <2>7, JobsEnd DEF DropProject, Inv
<1>5. ASSUME NEW u \in Users, NEW role \in Roles,
             \/ RemoveMember(c, u) /\ role = NoRole
             \/ AddMember(c, u, role)
      PROVE  Inv'
  <2>. DEFINE p == projects[job[c].slug]
              j == [at |-> "member", user |-> u, project |-> p, role |-> role, seen |-> Owners(p)]
  <2>1. p \in ProjectIds
    BY <1>5, SlugProject DEF RemoveMember, AddMember, In
  <2>2. role # "owner" => Owners(p) # {u}
    BY <1>5 DEF RemoveMember, AddMember, KeepOwner
  <2>3. Owners(p) \in SUBSET Users
    BY DEF Owners
  <2>4. j \in Job /\ JobFits(j)
    BY <2>1, <2>2, <2>3, Jobs DEF JobFits
  <2>5. Go(c, j) /\ UNCHANGED tables
    BY <1>5 DEF RemoveMember, AddMember, Reads
  <2>. HIDE DEF j
  <2>. QED
    BY <2>4, <2>5, JobsGoOn, TablesStay DEF Inv
<1>6. ASSUME WriteMember(c)
      PROVE  Inv'
  <2>1. job[c].project \in ProjectIds /\ job[c].user \in accounts /\ job[c].role \in Roles
    BY <1>6, AtJob, JobFields DEF WriteMember, Inv
  <2>2. TablesInv'
    BY <1>6, <2>1, MemberWritten DEF WriteMember, Inv
  <2>. QED
    BY <1>6, <2>2, JobsEnd DEF WriteMember, Inv
<1>7. NoRole \in Roles /\ AddedRoles \subseteq Roles
  BY ProjectAccessAssumption DEF Roles
<1>. QED
  BY <1>1, <1>2, <1>3, <1>4, <1>5, <1>6, <1>7 DEF OnProjects

LEMMA OnTasksKeeps ==
  ASSUME Inv, NEW c \in Clients, OnTasks(c)
  PROVE  Inv'
<1>1. ASSUME NEW n \in Names, NEW t \in TaskIds, CreateTask(c, n, t)
      PROVE  Inv'
  <2>1. At(c, "in") /\ projects[job[c].slug] # NoProject
    BY <1>1 DEF CreateTask, In
  <2>. PICK p \in ProjectIds : p = projects[job[c].slug]
    BY <2>1, SlugProject
  <2>2. LiveProject(p)
    BY <2>1, SlugProject
  <2>3. /\ tasks' = [tasks EXCEPT ![p][n] = t] /\ tasks[p][n] = NoTask
        /\ UNCHANGED <<accounts, projects, members, grants>>
    BY <1>1 DEF CreateTask, HasTask, TaskAt
  <2>4. \A q \in ProjectIds, k \in Names : tasks[q][k] # t
    BY <1>1 DEF CreateTask, HeldTasks
  <2>5. /\ tasks' \in [ProjectIds -> [Names -> TaskIds \cup {NoTask}]]
        /\ \A q \in ProjectIds, k \in Names :
             tasks'[q][k] = IF q = p /\ k = n THEN t ELSE tasks[q][k]
    BY <2>3 DEF Inv, TablesInv, Tables
  <2>6. TasksOnce'
    BY <2>4, <2>5 DEF Inv, TablesInv, TasksOnce, HasTask, TaskAt
  <2>7. TasksHaveProjects'
    BY <2>2, <2>3, <2>5 DEF Inv, TablesInv, TasksHaveProjects, HasTask, TaskAt, LiveProject
  <2>8. \A d \in TaskIds : LiveTask(d) => LiveTask(d)'
    BY <2>3, <2>5, ProjectAccessAssumption DEF LiveTask
  <2>9. TablesInv'
    BY <2>3, <2>5, <2>6, <2>7, <2>8
    DEF Inv, TablesInv, Tables, ProjectsOnce, MembersRefer, GrantsRefer, LiveProject
  <2>. DEFINE j == [job[c] EXCEPT !.at = "made", !.name = n]
  <2>10. j \in Job /\ JobFits(j)
    BY <2>1, AtJob, Made DEF Inv
  <2>. HIDE DEF j
  <2>11. End(c) \/ Go(c, j)
    BY <1>1 DEF CreateTask, j
  <2>. QED
    BY <2>9, <2>10, <2>11, JobsGoOn, JobsEnd DEF Inv
<1>2. ASSUME DeleteTask(c)
      PROVE  Inv'
  <2>1. In(c, "deleteTask") /\ projects[job[c].slug] # NoProject
    BY <1>2 DEF DeleteTask
  <2>2. At(c, "in") /\ job[c].name \in Names
    BY <2>1, InName DEF TaskRoutes
  <2>. PICK p \in ProjectIds : p = projects[job[c].slug]
    BY <2>1, <2>2, SlugProject
  <2>. PICK n \in Names : n = job[c].name
    BY <2>2
  <2>. PICK t \in TaskIds : t = tasks[p][n]
    BY <1>2 DEF DeleteTask, HasTask, TaskAt, Inv, TablesInv, Tables
  <2>3. /\ tasks' = [tasks EXCEPT ![p][n] = NoTask] /\ grants' = [grants EXCEPT ![t] = NoMembers]
        /\ UNCHANGED <<accounts, projects, members>>
    BY <1>2 DEF DeleteTask, TaskAt
  <2>4. /\ tasks' \in [ProjectIds -> [Names -> TaskIds \cup {NoTask}]]
        /\ \A q \in ProjectIds, k \in Names :
             tasks'[q][k] = IF q = p /\ k = n THEN NoTask ELSE tasks[q][k]
    BY <2>3 DEF Inv, TablesInv, Tables
  <2>5. /\ grants' \in [TaskIds -> [Users -> GrantRoles \cup {NoRole}]]
        /\ \A d \in TaskIds, u \in Users : grants'[d][u] = IF d = t THEN NoRole ELSE grants[d][u]
    BY <2>3 DEF Inv, TablesInv, Tables, NoMembers
  <2>6. TasksOnce' /\ TasksHaveProjects'
    BY <2>3, <2>4 DEF Inv, TablesInv, TasksOnce, TasksHaveProjects, HasTask, TaskAt, LiveProject
  <2>7. \A d \in TaskIds \ {t} : LiveTask(d) => LiveTask(d)'
    BY <2>4 DEF LiveTask
  <2>8. TablesInv'
    BY <2>3, <2>4, <2>5, <2>6, <2>7
    DEF Inv, TablesInv, Tables, ProjectsOnce, MembersRefer, GrantsRefer, LiveProject
  <2>. QED
    BY <1>2, <2>8, JobsEnd DEF DeleteTask, Inv
<1>3. ASSUME NEW u \in Users, NEW role \in GrantRoles \cup {NoRole}, Grant(c, u, role)
      PROVE  Inv'
  <2>. DEFINE p == projects[job[c].slug]
              t == TaskAt(p, job[c].name)
              j == [at |-> "grant", user |-> u, task |-> t, role |-> role]
  <2>1. /\ In(c, "grantTask") \/ In(c, "revokeGrant")
        /\ p # NoProject /\ HasTask(p, job[c].name)
    BY <1>3 DEF Grant
  <2>2. At(c, "in") /\ job[c].name \in Names
    BY <2>1, InName DEF TaskRoutes
  <2>3. p \in ProjectIds
    BY <2>1, <2>2, SlugProject
  <2>4. t \in TaskIds
    BY <2>1, <2>2, <2>3 DEF HasTask, TaskAt, Inv, TablesInv, Tables
  <2>5. j \in Job /\ JobFits(j)
    BY <2>4, Jobs DEF JobFits
  <2>6. Go(c, j) /\ UNCHANGED tables
    BY <1>3 DEF Grant, Reads
  <2>. HIDE DEF j
  <2>. QED
    BY <2>5, <2>6, JobsGoOn, TablesStay DEF Inv
<1>4. ASSUME WriteGrant(c)
      PROVE  Inv'
  <2>1. job[c].task \in TaskIds /\ job[c].user \in Users /\ job[c].role \in GrantRoles \cup {NoRole}
    BY <1>4, AtJob, JobFields DEF WriteGrant, Inv
  <2>2. TablesInv'
    BY <1>4, <2>1, GrantWritten DEF WriteGrant, Inv
  <2>. QED
    BY <1>4, <2>2, JobsEnd DEF WriteGrant, Inv
<1>5. ASSUME NEW us \in SUBSET Users, SetAssignees(c, us)
      PROVE  Inv'
  <2>. DEFINE p == job[c].project
              t == TaskAt(p, job[c].name)
              had == {u \in Users : grants[t][u] # NoRole}
              j == Assigning(t, us \ had, had \ us)
  <2>1. p \in ProjectIds /\ job[c].name \in Names
    <3>1. CASE In(c, "setAssignees")
      BY <3>1, InName DEF TaskRoutes
    <3>2. CASE At(c, "made")
      BY <3>2, AtJob, JobFields DEF Inv, JobFits
    <3>. QED
      BY <1>5, <3>1, <3>2 DEF SetAssignees
  <2>2. t \in TaskIds
    <3>1. HasTask(p, job[c].name)
      BY <1>5 DEF SetAssignees
    <3>. QED
      BY <2>1, <3>1 DEF HasTask, TaskAt, Inv, TablesInv, Tables
  <2>3. (j \in Job /\ JobFits(j)) \/ j = Idle
    BY <2>2, AssigningJob
  <2>4. Go(c, j) /\ UNCHANGED tables
    BY <1>5 DEF SetAssignees, Reads
  <2>. HIDE DEF j
  <2>. QED
    BY <2>3, <2>4, JobsGoOn, TablesStay DEF Inv
<1>6. ASSUME NEW u \in Users, Assign(c, u) \/ Unassign(c, u)
      PROVE  Inv'
  <2>. PICK t \in TaskIds, added \in SUBSET Users, removed \in SUBSET Users :
         t = job[c].task /\ added = job[c].added /\ removed = job[c].removed
    BY <1>6, AtJob, JobFields DEF Assign, Unassign, Inv
  <2>1. CASE Assign(c, u)
    <3>1. TablesInv'
      BY <2>1, GrantWritten DEF Assign, Inv, GrantRoles
    <3>2. JobsInv'
      BY <2>1, AssigningJob, JobsGoOn DEF Assign, Inv
    <3>. QED
      BY <3>1, <3>2 DEF Inv
  <2>2. CASE Unassign(c, u)
    <3>1. TablesInv'
      BY <2>2, GrantWritten DEF Unassign, Inv
    <3>2. JobsInv'
      BY <2>2, AssigningJob, JobsGoOn DEF Unassign, Inv
    <3>. QED
      BY <3>1, <3>2 DEF Inv
  <2>. QED
    BY <1>6, <2>1, <2>2
<1>7. GrantedRoles \cup {NoRole} \subseteq GrantRoles \cup {NoRole}
  BY ProjectAccessAssumption
<1>. QED
  BY <1>1, <1>2, <1>3, <1>4, <1>5, <1>6, <1>7 DEF OnTasks

\* Accounts come and go, and a request fails.
LEMMA OtherwiseKeeps ==
  ASSUME Inv, (\E u \in Users : CreateUser(u) \/ DeleteUser(u)) \/ \E c \in Clients : Fail(c)
  PROVE  Inv'
<1>1. ASSUME NEW u \in Users, CreateUser(u)
      PROVE  Inv'
  <2>1. TablesInv'
    BY <1>1 DEF CreateUser, Inv, TablesInv, Tables, ProjectsOnce, TasksOnce, TasksHaveProjects,
                MembersRefer, GrantsRefer, HasTask, TaskAt, LiveProject, LiveTask
  <2>. QED
    BY <1>1, <2>1, JobsStay DEF CreateUser, Inv
<1>2. ASSUME NEW u \in Users, DeleteUser(u)
      PROVE  Inv'
  <2>1. /\ accounts' = accounts \ {u}
        /\ members' = [p \in ProjectIds |-> [members[p] EXCEPT ![u] = NoRole]]
        /\ grants' = [t \in TaskIds |-> [grants[t] EXCEPT ![u] = NoRole]]
        /\ UNCHANGED <<projects, tasks>>
    BY <1>2 DEF DeleteUser
  <2>2. /\ members' \in [ProjectIds -> [Users -> Roles]]
        /\ \A p \in ProjectIds, x \in Users : members'[p][x] = IF x = u THEN NoRole ELSE members[p][x]
    BY <2>1 DEF Inv, TablesInv, Tables, Roles
  <2>3. /\ grants' \in [TaskIds -> [Users -> GrantRoles \cup {NoRole}]]
        /\ \A t \in TaskIds, x \in Users : grants'[t][x] = IF x = u THEN NoRole ELSE grants[t][x]
    BY <2>1 DEF Inv, TablesInv, Tables
  <2>4. TablesInv'
    BY <2>1, <2>2, <2>3 DEF Inv, TablesInv, Tables, ProjectsOnce, TasksOnce, TasksHaveProjects,
                            MembersRefer, GrantsRefer, HasTask, TaskAt, LiveProject, LiveTask
  <2>. QED
    BY <1>2, <2>4, JobsStay DEF DeleteUser, Inv
<1>3. ASSUME NEW c \in Clients, Fail(c)
      PROVE  Inv'
  BY <1>3, JobsEnd, TablesStay DEF Fail, Inv
<1>. QED
  BY <1>1, <1>2, <1>3

LEMMA NextKeeps == Inv /\ [Next]_vars => Inv'
<1>. SUFFICES ASSUME Inv, [Next]_vars
     PROVE  Inv'
  OBVIOUS
<1>1. CASE \E c \in Clients, x \in Users, s \in Slugs, n \in Paths : Authorize(c, x, s, n)
  BY <1>1, AuthorizeKeeps
<1>2. CASE \E c \in Clients : OnProjects(c)
  BY <1>2, OnProjectsKeeps
<1>3. CASE \E c \in Clients : OnTasks(c)
  BY <1>3, OnTasksKeeps
<1>4. CASE (\E u \in Users : CreateUser(u) \/ DeleteUser(u)) \/ \E c \in Clients : Fail(c)
  BY <1>4, OtherwiseKeeps
<1>5. CASE UNCHANGED vars
  BY <1>5, TablesStay, JobsStay DEF vars, tables, Inv
<1>. QED
  BY <1>1, <1>2, <1>3, <1>4, <1>5 DEF Next

(***************************************************************************)
(* The last owner.                                                         *)
(***************************************************************************)
\* What a step that leaves a project without the owners it had has done.
Excused(p) ==
  \/ accounts' # accounts
  \/ \E c \in Clients : At(c, "member") /\ job'[c] = Idle /\ job[c].seen # Owners(p)

LEMMA StepKeepsOwner ==
  ASSUME Inv, [Next]_vars, NEW p \in ProjectIds,
         LiveProject(p), LiveProject(p)', Owners(p) # {}, Owners(p)' = {}
  PROVE  Excused(p)
<1>1. members' # members
  BY DEF Owners
<1>2. \A u \in Users : DeleteUser(u) => accounts' # accounts
  BY DEF DeleteUser
<1>3. \A c \in Clients : ~AddOwner(c)
  BY DEF AddOwner, Inv, TablesInv, Tables, Owners
<1>4. ASSUME NEW c \in Clients, DropProject(c)
      PROVE  FALSE
  <2>1. p = job[c].project
    BY <1>4 DEF DropProject, Owners, Inv, TablesInv, Tables
  <2>2. ~LiveProject(p)'
    BY <1>4, <2>1, ProjectAccessAssumption DEF DropProject, LiveProject
  <2>. QED
    BY <2>2
<1>5. ASSUME NEW c \in Clients, WriteMember(c)
      PROVE  Excused(p)
  <2>. PICK u \in Users, role \in Roles : u = job[c].user /\ role = job[c].role
    BY <1>5, AtJob, JobFields DEF WriteMember, Inv
  <2>1. \A v \in Users : members'[p][v] # members[p][v] => v = u /\ members'[p][v] = role
    BY <1>5 DEF WriteMember, Inv, TablesInv, Tables
  <2>2. Owners(p) = {u} /\ role # "owner"
    BY <2>1 DEF Owners
  <2>3. job[c].seen # {u} /\ At(c, "member") /\ job'[c] = Idle
    BY <1>5, <2>2, AtJob DEF WriteMember, End, Go, Inv, JobFits, JobsInv
  <2>. QED
    BY <2>2, <2>3 DEF Excused
<1>6. ASSUME NEW c \in Clients, OnProjects(c)
      PROVE  Excused(p)
  BY <1>1, <1>3, <1>4, <1>5, <1>6 DEF OnProjects, CreateProject, DeleteProject, RemoveMember, AddMember, Reads, tables
<1>7. \A c \in Clients : ~OnTasks(c)
  BY <1>1 DEF OnTasks, CreateTask, DeleteTask, Grant, WriteGrant, SetAssignees, Assign, Unassign, Reads, tables
<1>8. /\ \A c \in Clients : ~Fail(c)
      /\ \A c \in Clients, x \in Users, s \in Slugs, n \in Paths : ~Authorize(c, x, s, n)
      /\ \A u \in Users : ~CreateUser(u)
      /\ ~UNCHANGED vars
  BY <1>1 DEF Fail, Authorize, Reads, CreateUser, vars, tables
<1>. QED
  BY <1>2, <1>6, <1>7, <1>8 DEF Next, Excused

(***************************************************************************)
(* Results.                                                                *)
(***************************************************************************)
\* The tables hold together for any number of requests: members are accounts in a
\* project that exists, grants are of accounts on a task that exists, and no id has
\* two rows, although every request uses ids that it read some statements before.
THEOREM TypeCorrect == Spec => []TypeOK
<1>1. Inv => TypeOK
  BY InvParts DEF Inv, JobsInv
<1>2. Init => Inv
  BY InitInv DEF Inv
<1>. QED
  BY <1>1, <1>2, NextKeeps, PTL DEF Spec

\* keepOwner: a project loses its last owner only with an account, or to a request
\* whose check counted other owners than there are when it writes.
THEOREM OwnerStays == Spec => LastOwnerKept
<1>1. Init => Inv
  BY InitInv DEF Inv
<1>. DEFINE Lost(p) == LiveProject(p) /\ LiveProject(p)' /\ Owners(p) # {} /\ Owners(p)' = {}
<1>2. Inv /\ [Next]_vars =>
        [\A p \in ProjectIds : Lost(p) =>
           \/ accounts' # accounts
           \/ \E c \in Clients : At(c, "member") /\ job'[c] = Idle /\ job[c].seen # Owners(p)]_vars
  BY StepKeepsOwner DEF Excused
<1>. QED
  BY <1>1, <1>2, NextKeeps, PTL DEF Spec, LastOwnerKept

(***************************************************************************)
(* One answer to who may reach what.                                       *)
(***************************************************************************)
LEMMA Ranks ==
  /\ Rank("viewer") = 1 /\ Rank("operator") = 2 /\ Rank("member") = 3
  /\ Rank("owner") = 4 /\ Rank(NoRole) = 0
BY DEF Rank, NoRole

LEMMA RankBounds ==
  \A r \in Roles : /\ Rank(r) \in 0..4
                   /\ Rank(r) = 0 <=> r = NoRole
                   /\ Rank(r) = 1 <=> r = "viewer"
                   /\ Rank(r) = 4 <=> r = "owner"
<1>1. ASSUME NEW r \in Roles
      PROVE  r = NoRole \/ r = "viewer" \/ r = "operator" \/ r = "member" \/ r = "owner"
  BY <1>1 DEF Roles, ProjectRoles, GrantRoles
<1>2. NoRole # "viewer" /\ NoRole # "operator" /\ NoRole # "member" /\ NoRole # "owner"
  BY DEF NoRole
<1>. QED
  BY <1>1, <1>2, Ranks

LEMMA HigherRole ==
  ASSUME NEW r \in Roles, NEW s \in Roles
  PROVE  /\ Higher(r, s) \in Roles
         /\ r = NoRole => Higher(r, s) = s
         /\ s = NoRole => Higher(r, s) = r
         /\ r = "owner" => Higher(r, s) = "owner"
         /\ Higher(r, s) = NoRole <=> r = NoRole /\ s = NoRole
         /\ s = "viewer" /\ r # NoRole => Higher(r, s) = r
         /\ r = "viewer" /\ s # NoRole => Higher(r, s) = s
<1>1. Rank(r) \in 0..4 /\ Rank(s) \in 0..4
  BY RankBounds
<1>2. /\ Rank(r) = 0 <=> r = NoRole
      /\ Rank(s) = 0 <=> s = NoRole
      /\ r = "owner" <=> Rank(r) = 4
      /\ r = "viewer" <=> Rank(r) = 1
      /\ s = "viewer" <=> Rank(s) = 1
  BY RankBounds
<1>. QED
  BY <1>1, <1>2 DEF Higher

LEMMA Routes ==
  /\ Needs("getProject") = "viewer" /\ Needs("listMembers") = "member"
  /\ Needs("updateProject") = "owner" /\ Needs("deleteProject") = "owner"
  /\ Needs("addMember") = "owner" /\ Needs("removeMember") = "owner"
  /\ Needs("listTasks") = "viewer" /\ Needs("getTask") = "viewer" /\ Needs("logs") = "viewer"
  /\ Needs("streamMetrics") = "viewer" /\ Needs("updateState") = "operator"
  /\ Needs("createTask") = "member" /\ Needs("updateTask") = "member"
  /\ Needs("deleteTask") = "member" /\ Needs("listGrants") = "owner"
  /\ Needs("grantTask") = "owner" /\ Needs("revokeGrant") = "owner"
BY DEF Needs, ProjectRoutes, TaskRoutes

LEMMA AccessTyped ==
  ASSUME TypeOK, NEW p \in ProjectIds, NEW u \in accounts
  PROVE  /\ u \in Users
         /\ members[p][u] \in Roles
         /\ \A n \in Names : GrantOn(u, p, n) \in Roles
         /\ \A n \in Paths : GrantedRole(u, p, n) \in Roles /\ Access(u, p, n) \in Roles
         /\ ListedRole(u, p) \in Roles
<1>1. u \in Users /\ members[p][u] \in Roles
  BY DEF TypeOK
<1>2. ASSUME NEW n \in Names PROVE GrantOn(u, p, n) \in Roles
  BY <1>1 DEF TypeOK, GrantOn, HasTask, TaskAt, Roles, ProjectRoles
<1>3. ASSUME NEW n \in Paths PROVE GrantedRole(u, p, n) \in Roles /\ Access(u, p, n) \in Roles
  <2>1. GrantedRole(u, p, n) \in Roles
    BY <1>2, <1>3 DEF GrantedRole, Paths, Roles, ProjectRoles, GrantRoles
  <2>. QED
    BY <1>1, <2>1, HigherRole DEF Access, Roles, ProjectRoles
<1>4. ListedRole(u, p) \in Roles
  BY <1>1 DEF ListedRole, Roles, ProjectRoles, GrantRoles
<1>. QED
  BY <1>1, <1>2, <1>3, <1>4

\* The overview lists who a route lets in, with the same role.
LEMMA ListedIsLetIn ==
  ASSUME TypeOK, NEW p \in ProjectIds, NEW u \in accounts
  PROVE  /\ Listed(u, p) <=> Access(u, p, NoName) # NoRole
         /\ Listed(u, p) => ListedRole(u, p) = Access(u, p, NoName)
<1>1. members[p][u] \in Roles /\ GrantedRole(u, p, NoName) \in Roles
  BY AccessTyped DEF Paths
<1>2. GrantedRole(u, p, NoName) = IF AnyInProject(u, p) THEN "viewer" ELSE NoRole
  BY DEF GrantedRole
<1>3. Access(u, p, NoName) =
        IF u \in Admins THEN "owner" ELSE Higher(members[p][u], GrantedRole(u, p, NoName))
  BY DEF Access
<1>4. Higher(members[p][u], GrantedRole(u, p, NoName)) = NoRole
        <=> members[p][u] = NoRole /\ ~AnyInProject(u, p)
  BY <1>1, <1>2, HigherRole DEF NoRole
<1>5. members[p][u] # NoRole =>
        Higher(members[p][u], GrantedRole(u, p, NoName)) = members[p][u]
  BY <1>1, <1>2, HigherRole
<1>6. members[p][u] = NoRole =>
        Higher(members[p][u], GrantedRole(u, p, NoName)) = GrantedRole(u, p, NoName)
  BY <1>1, HigherRole
<1>7. Listed(u, p) <=> Access(u, p, NoName) # NoRole
  BY <1>3, <1>4 DEF Listed, NoRole
<1>8. Listed(u, p) => ListedRole(u, p) = Access(u, p, NoName)
  BY <1>2, <1>3, <1>5, <1>6 DEF Listed, ListedRole
<1>. QED
  BY <1>7, <1>8

\* ... and so it is for a task.
LEMMA FleetIsLetIn ==
  ASSUME TypeOK, NEW p \in ProjectIds, NEW u \in accounts, NEW n \in Names, HasTask(p, n)
  PROVE  FleetRole(u, p, n) = Access(u, p, n)
<1>1. members[p][u] \in Roles /\ GrantOn(u, p, n) \in Roles
  BY AccessTyped
<1>2. Access(u, p, n) =
        IF u \in Admins THEN "owner" ELSE Higher(members[p][u], GrantOn(u, p, n))
  BY ProjectAccessAssumption DEF Access, GrantedRole
<1>3. GrantOn(u, p, n) # NoRole => AnyInProject(u, p)
  BY DEF AnyInProject
<1>4. CASE u \in Admins
  <2>1. FleetRole(u, p, n) = Higher("owner", GrantOn(u, p, n))
    BY <1>4 DEF FleetRole, Listed, AllTasks, ListedRole
  <2>2. "owner" \in Roles
    BY DEF Roles, ProjectRoles
  <2>. QED
    BY <1>1, <1>2, <1>4, <2>1, <2>2, HigherRole
<1>5. CASE u \notin Admins /\ members[p][u] # NoRole
  BY <1>2, <1>5 DEF FleetRole, Listed, AllTasks, ListedRole
<1>6. CASE u \notin Admins /\ members[p][u] = NoRole /\ GrantOn(u, p, n) # NoRole
  <2>1. FleetRole(u, p, n) = Higher("viewer", GrantOn(u, p, n))
    BY <1>3, <1>6 DEF FleetRole, Listed, AllTasks, ListedRole
  <2>2. "viewer" \in Roles
    BY DEF Roles, ProjectRoles, GrantRoles
  <2>. QED
    BY <1>1, <1>2, <1>6, <2>1, <2>2, HigherRole
<1>7. CASE u \notin Admins /\ members[p][u] = NoRole /\ GrantOn(u, p, n) = NoRole
  <2>1. FleetRole(u, p, n) = NoRole
    BY <1>7 DEF FleetRole, Listed, AllTasks, ListedRole
  <2>. QED
    BY <1>1, <1>2, <1>7, <2>1, HigherRole
<1>. QED
  BY <1>4, <1>5, <1>6, <1>7

\* A role in the project lets a user in to every task of it.
LEMMA MemberIsLetIn ==
  ASSUME TypeOK, NEW p \in ProjectIds, NEW u \in accounts, AllTasks(u, p), NEW n \in Paths
  PROVE  Access(u, p, n) # NoRole
<1>1. members[p][u] \in Roles /\ GrantedRole(u, p, n) \in Roles
  BY AccessTyped
<1>. QED
  BY <1>1, HigherRole DEF Access, AllTasks, NoRole

LEMMA OwnerIsLetIn ==
  ASSUME TypeOK, NEW p \in ProjectIds, NEW u \in accounts, ListedRole(u, p) = "owner", NEW n \in Paths
  PROVE  Access(u, p, n) = "owner"
<1>1. members[p][u] \in Roles /\ GrantedRole(u, p, n) \in Roles
  BY AccessTyped
<1>2. u \in Admins \/ members[p][u] = "owner"
  BY DEF ListedRole
<1>. QED
  BY <1>1, <1>2, HigherRole DEF Access

\* Whichever projects have code, what Bora tells is what the routes would.
LEMMA BoraHolds ==
  ASSUME TypeOK, NEW p \in ProjectIds, NEW u \in accounts, NEW coded \in SUBSET ProjectIds
  PROVE  BoraKeepsTo(p, u, coded)
<1>1. \A n \in Paths : Access(u, p, n) \in Roles
  BY AccessTyped
<1>2. \A n \in Paths : /\ Access(u, p, n) # NoRole => Rank(Access(u, p, n)) >= 1
                       /\ Access(u, p, n) = "owner" => Rank(Access(u, p, n)) = 4
  BY <1>1, RankBounds
<1>3. p \in Scope(u, coded) => AllTasks(u, p)
  BY DEF Scope, BoraReads, BoraServes
<1>4. Owned(u, p, coded) => ListedRole(u, p) = "owner"
  BY DEF Owned
<1>5. ASSUME NEW n \in Names, NEW tool \in DOMAIN TaskTools, TellsOfTask(u, p, n, tool, coded)
      PROVE  LetIn(Access(u, p, n), TaskTools[tool])
  <2>1. n \in Paths /\ AllTasks(u, p)
    BY <1>3, <1>5 DEF TellsOfTask, Finds, Paths
  <2>2. tool \in {"task_details", "task_logs", "metrics", "grants"}
    BY DEF TaskTools
  <2>3. CASE tool = "grants"
    <3>1. Access(u, p, n) = "owner"
      BY <1>4, <1>5, <2>1, <2>3, OwnerIsLetIn DEF TellsOfTask
    <3>. QED
      BY <1>2, <2>1, <2>3, <3>1, Routes, Ranks DEF LetIn, TaskTools
  <2>4. CASE tool # "grants"
    <3>1. Access(u, p, n) # NoRole
      BY <2>1, MemberIsLetIn
    <3>2. Needs(TaskTools[tool]) = "viewer"
      BY <2>2, <2>4, Routes DEF TaskTools
    <3>. QED
      BY <1>2, <2>1, <3>1, <3>2, Ranks DEF LetIn
  <2>. QED
    BY <2>3, <2>4
<1>6. ASSUME NEW tool \in DOMAIN ProjectTools, TellsOfProject(u, p, tool, coded)
      PROVE  LetIn(Access(u, p, NoName), ProjectTools[tool])
  <2>1. NoName \in Paths /\ AllTasks(u, p)
    BY <1>3, <1>6 DEF TellsOfProject, Paths
  <2>2. tool \in {"list_tasks", "project_settings", "members"}
    BY DEF ProjectTools
  <2>3. CASE tool = "members"
    <3>1. Access(u, p, NoName) = "owner"
      BY <1>4, <1>6, <2>1, <2>3, OwnerIsLetIn DEF TellsOfProject
    <3>. QED
      BY <1>2, <2>1, <2>3, <3>1, Routes, Ranks DEF LetIn, ProjectTools
  <2>4. CASE tool # "members"
    <3>1. Access(u, p, NoName) # NoRole
      BY <2>1, MemberIsLetIn
    <3>2. Needs(ProjectTools[tool]) = "viewer"
      BY <2>2, <2>4, Routes DEF ProjectTools
    <3>. QED
      BY <1>2, <2>1, <3>1, <3>2, Ranks DEF LetIn
  <2>. QED
    BY <2>3, <2>4
<1>7. ASSUME NEW read \in SUBSET ProjectIds,
             \A q \in read : LiveProject(q) => BoraReads(u, q, coded)
      PROVE  ConversationVisible(u, read)
  BY <1>7 DEF ConversationVisible, BoraReads, BoraServes, AllTasks
<1>8. ASSUME NEW read \in SUBSET ProjectIds, ConversationVisible(u, read),
             NEW q \in read, NEW n \in Paths, LiveProject(q)
      PROVE  Access(u, q, n) # NoRole
  <2>1. q \in ProjectIds /\ AllTasks(u, q)
    BY <1>8 DEF ConversationVisible, AllTasks
  <2>. QED
    BY <2>1, MemberIsLetIn
<1>. QED
  BY <1>5, <1>6, <1>7, <1>8 DEF BoraKeepsTo

LEMMA ReachHolds ==
  ASSUME TypeOK, NEW p \in ProjectIds, NEW u \in accounts
  PROVE  ReachIsOne(p, u)
<1>1. members[p][u] \in Roles /\ \A n \in Names : GrantOn(u, p, n) \in Roles
  BY AccessTyped
<1>2. \A n \in Names :
        Access(u, p, n) = IF u \in Admins THEN "owner" ELSE Higher(members[p][u], GrantOn(u, p, n))
  BY ProjectAccessAssumption DEF Access, GrantedRole
<1>3. \A n \in Names : Visible(u, p, n, {}) <=> Access(u, p, n) # NoRole
  <2>1. "owner" # NoRole
    BY DEF NoRole
  <2>. QED
    BY <1>1, <1>2, <2>1, HigherRole DEF Visible
<1>4. \A n \in Names, disabled \in BOOLEAN, to \in SUBSET Users :
        Pushed(u, disabled, p, n, to) <=> Visible(u, p, n, to) /\ ~disabled
  BY DEF Pushed, Visible
<1>. QED
  BY <1>3, <1>4, BoraHolds, ListedIsLetIn, FleetIsLetIn DEF ReachIsOne

\* What each of Bora's ops asks for, and the route that runs it.
LEMMA NeedsOfOps ==
  ASSUME NEW op \in Ops
  PROVE  /\ BoraNeeds(op) = Needs(RunBy(op))
         /\ Rank(BoraNeeds(op)) \in 2..4
<1>1. CASE op \in {"task.start", "task.stop", "task.restart"}
  <2>1. BoraNeeds(op) = "operator"
    BY <1>1 DEF BoraNeeds
  <2>2. RunBy(op) = "updateState"
    BY <1>1 DEF RunBy
  <2>. QED
    BY <2>1, <2>2, Routes, Ranks
<1>2. CASE op \in {"task.create", "task.delete", "task.update", "task.env"}
  <2>1. op \notin {"task.start", "task.stop", "task.restart"}
    BY <1>2
  <2>2. BoraNeeds(op) = "member"
    BY <1>2, <2>1, Zenon DEF BoraNeeds, TaskOps
  <2>3. RunBy(op) \in {"createTask", "deleteTask", "updateTask"}
    <3>1. RunBy("task.create") = "createTask"
      BY Zenon DEF RunBy
    <3>2. RunBy("task.delete") = "deleteTask"
      BY Zenon DEF RunBy
    <3>3. RunBy("task.update") = "updateTask" /\ RunBy("task.env") = "updateTask"
      BY Zenon DEF RunBy
    <3>. QED
      BY <1>2, <3>1, <3>2, <3>3
  <2>. QED
    BY <2>2, <2>3, Routes, Ranks
<1>3. CASE op \in MemberOps \cup GrantOps \cup ProjectOps
  <2>1. /\ op \notin {"task.start", "task.stop", "task.restart"}
        /\ op \notin TaskOps \ {"task.start", "task.stop", "task.restart"}
    BY <1>3 DEF MemberOps, GrantOps, ProjectOps, TaskOps
  <2>2. BoraNeeds(op) = "owner"
    BY <2>1, Zenon DEF BoraNeeds
  <2>3. RunBy(op) \in {"addMember", "removeMember", "grantTask", "revokeGrant",
                       "updateProject", "deleteProject"}
    <3>1. RunBy("member.add") = "addMember" /\ RunBy("member.role") = "addMember"
      BY Zenon DEF RunBy
    <3>2. RunBy("member.remove") = "removeMember"
      BY Zenon DEF RunBy
    <3>3. RunBy("grant.add") = "grantTask"
      BY Zenon DEF RunBy
    <3>4. RunBy("grant.remove") = "revokeGrant"
      BY Zenon DEF RunBy
    <3>5. RunBy("project.update") = "updateProject"
      BY Zenon DEF RunBy
    <3>6. RunBy("project.delete") = "deleteProject"
      BY Zenon DEF RunBy
    <3>. QED
      BY <1>3, <3>1, <3>2, <3>3, <3>4, <3>5, <3>6 DEF MemberOps, GrantOps, ProjectOps
  <2>. QED
    BY <2>2, <2>3, Routes, Ranks
<1>. QED
  BY <1>1, <1>2, <1>3 DEF Ops, TaskOps

LEMMA OffersHold ==
  ASSUME TypeOK, NEW p \in ProjectIds, NEW x \in accounts, NEW u \in accounts,
         NEW n \in Names, NEW op \in Ops, NEW role \in Roles
  PROVE  OfferIsAccepted(p, x, n, op, u, role)
<1>. SUFFICES ASSUME NEW coded \in SUBSET ProjectIds, Proposable(x, p, n, op, u, role, coded)
     PROVE  RouteAccepts(x, p, n, op, u, role)
  BY NeedsOfOps DEF OfferIsAccepted
<1>. DEFINE k == IF op \in TaskOps \cup GrantOps /\ op # "task.create" THEN n ELSE NoName
<1>1. /\ Listed(x, p)
      /\ op \in TaskOps \cup GrantOps => (HasTask(p, n) <=> op # "task.create")
      /\ Rank(TaskRole(x, p, n, op)) >= Rank(BoraNeeds(op))
      /\ op \in MemberOps \cup GrantOps => Person(x, p, n, op, u)
      /\ SetRole(op, role)
  BY DEF Proposable, BoraReads
<1>2. TaskRole(x, p, n, op) = Access(x, p, k)
  <2>1. CASE op \in TaskOps \cup GrantOps /\ op # "task.create"
    BY <1>1, <2>1, FleetIsLetIn DEF TaskRole
  <2>2. CASE ~(op \in TaskOps \cup GrantOps /\ op # "task.create")
    BY <1>1, <2>2, ListedIsLetIn DEF TaskRole
  <2>. QED
    BY <2>1, <2>2
<1>3. LetIn(Access(x, p, k), RunBy(op))
  BY <1>1, <1>2, NeedsOfOps DEF LetIn
<1>4. op \in {"member.add", "member.role"} => role \in ProjectRoles
  BY <1>1 DEF SetRole, Roles
<1>5. op = "grant.add" => role \in GrantRoles
  BY <1>1 DEF SetRole, Roles, ProjectRoles
<1>6. /\ op = "member.remove" => members[p][u] # NoRole
      /\ op = "grant.remove" => GrantOn(u, p, n) # NoRole
  BY <1>1 DEF Person, MemberOps, GrantOps
<1>. QED
  BY <1>1, <1>3, <1>4, <1>5, <1>6 DEF RouteAccepts

\* The computations of what a user may reach agree for any users, roles, grants and
\* tasks, whatever requests are at work and whichever projects have code: routes, the
\* overview, notifications and their pushes are one question asked of the tables in Go
\* and in SQL (Access, List, Fleet, `visible`, Tokens), and what Bora tells, and whom a
\* conversation of it is hidden from, stays within it (BoraServes, visibleConversation).
THEOREM ReachAgrees ==
  Spec => [](/\ AccessAgrees
             /\ \A p \in ProjectIds, u \in accounts : ReachIsOne(p, u))
<1>1. TypeOK => \A p \in ProjectIds, u \in accounts : ReachIsOne(p, u)
  BY ReachHolds
<1>2. TypeOK => AccessAgrees
  BY <1>1 DEF AccessAgrees
<1>. QED
  BY <1>1, <1>2, TypeCorrect, PTL

\* Whoever Bora offers a change to may make it, for any users, roles and tasks, as
\* long as the tables stay as they were when Bora read them (propose, routes.go).
THEOREM OffersAgree ==
  Spec => [](/\ ProposalsMatchRoutes
             /\ \A p \in ProjectIds, x, u \in accounts, n \in Names, op \in Ops, role \in Roles :
                  OfferIsAccepted(p, x, n, op, u, role))
<1>1. TypeOK =>
        \A p \in ProjectIds, x, u \in accounts, n \in Names, op \in Ops, role \in Roles :
          OfferIsAccepted(p, x, n, op, u, role)
  BY OffersHold
<1>2. TypeOK => ProposalsMatchRoutes
  BY <1>1 DEF ProposalsMatchRoutes
<1>. QED
  BY <1>1, <1>2, TypeCorrect, PTL
=============================================================================
