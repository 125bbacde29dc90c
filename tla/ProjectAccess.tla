--------------------------- MODULE ProjectAccess ---------------------------
(***************************************************************************)
(* Projects, their members and the grants on single tasks: ProjectService  *)
(* (internal/service/project_service.go), the tables behind it, the access *)
(* a route asks for (transport/http/routes.go) and the changes Bora may    *)
(* propose (internal/service/bora_tools.go).                               *)
(*                                                                         *)
(* What a user may reach is computed in several places, in Go and in SQL:  *)
(* Access for a route, List and Fleet for the overview, `visible` for a    *)
(* notification, Tokens for its push, newBora for what Bora may read,      *)
(* visibleConversation for old answers, and propose for Bora's buttons.    *)
(*                                                                         *)
(* A request is let in by its route and then resolves its project or task  *)
(* to an id, reads what its check needs, and writes, each in a statement   *)
(* of its own.  Ids are never used twice: here an id is drawn again only   *)
(* when no row and no request holds it.  Reads that follow each other in    *)
(* one request are taken as one.  Who is an administrator does not change; *)
(* Accounts models that.  The field seen of a request is history: the      *)
(* owners its check counted.                                               *)
(***************************************************************************)
EXTENDS Naturals, FiniteSets

CONSTANTS
  Users, Admins,            \* user ids, and those of administrators
  ProjectIds, NoProject,
  TaskIds, NoTask,
  Slugs, Names, NoName,     \* a route without a task has NoName
  AddedRoles, GrantedRoles, \* what AddMember and Grant are asked for
  Clients, Idle

NoRole == ""
GrantRoles == {"viewer", "operator", "member"}
ProjectRoles == GrantRoles \cup {"owner"}
Roles == ProjectRoles \cup {NoRole}

\* The order of the roles; 0 marks an absent one.
Rank(r) == CASE r = "viewer" -> 1 [] r = "operator" -> 2 [] r = "member" -> 3
             [] r = "owner" -> 4 [] OTHER -> 0
Higher(r, s) == IF Rank(s) > Rank(r) THEN s ELSE r

Paths == Names \cup {NoName}

Job == [at : {"in", "made"}, user : Users, slug : Slugs, name : Paths, project : ProjectIds, role : ProjectRoles]
  \cup [at : {"owner"}, user : Users, project : ProjectIds]                \* Create's second insert
  \cup [at : {"member"}, user : Users, project : ProjectIds, role : Roles, seen : SUBSET Users]
  \cup [at : {"grant"}, user : Users, task : TaskIds, role : {NoRole} \cup GrantRoles]
  \cup [at : {"assign"}, task : TaskIds, added : SUBSET Users, removed : SUBSET Users]
  \cup [at : {"drop"}, project : ProjectIds]

ASSUME ProjectAccessAssumption ==
  /\ Admins \subseteq Users
  /\ NoProject \notin ProjectIds /\ NoTask \notin TaskIds /\ NoName \notin Names
  /\ AddedRoles \subseteq ProjectRoles /\ GrantedRoles \subseteq GrantRoles
  /\ Idle \notin Job

VARIABLES
  accounts,  \* table users: the ids in use
  projects,  \* table projects, by slug
  tasks,     \* table tasks, by project and name
  members,   \* table project_members
  grants,    \* table task_grants
  job        \* the requests

tables == <<accounts, projects, tasks, members, grants>>
vars == <<accounts, projects, tasks, members, grants, job>>

LiveProject(p) == \E s \in Slugs : projects[s] = p
TaskAt(p, n) == tasks[p][n]
HasTask(p, n) == tasks[p][n] # NoTask
LiveTask(t) == \E p \in ProjectIds, n \in Names : tasks[p][n] = t
Owners(p) == {u \in Users : members[p][u] = "owner"}

(***************************************************************************)
(* What a user may reach                                                   *)
(***************************************************************************)
GrantOn(u, p, n) == IF HasTask(p, n) THEN grants[TaskAt(p, n)][u] ELSE NoRole
AnyInProject(u, p) == \E n \in Names : GrantOn(u, p, n) # NoRole

\* What grants alone give: on a route without a task, that the project is there.
GrantedRole(u, p, n) ==
  IF n # NoName THEN GrantOn(u, p, n)
  ELSE IF AnyInProject(u, p) THEN "viewer" ELSE NoRole

Access(u, p, n) ==
  IF u \in Admins THEN "owner" ELSE Higher(members[p][u], GrantedRole(u, p, n))

\* The overview: administrators list every project, others those ListForUser joins.
Listed(u, p) == u \in Admins \/ members[p][u] # NoRole \/ AnyInProject(u, p)
AllTasks(u, p) == u \in Admins \/ members[p][u] # NoRole
ListedRole(u, p) ==
  IF u \in Admins THEN "owner" ELSE IF members[p][u] # NoRole THEN members[p][u] ELSE "viewer"

\* As if Fleet took a grant for the role on the task, whatever the project gives.
FleetRoleByGrant(u, p, n) ==
  IF Listed(u, p) /\ (AllTasks(u, p) \/ GrantOn(u, p, n) # NoRole)
  THEN IF GrantOn(u, p, n) # NoRole THEN GrantOn(u, p, n) ELSE ListedRole(u, p)
  ELSE NoRole

FleetRole(u, p, n) ==
  IF Listed(u, p) /\ (AllTasks(u, p) \/ GrantOn(u, p, n) # NoRole)
  THEN Higher(ListedRole(u, p), GrantOn(u, p, n)) ELSE NoRole

\* A notification about a task, which may be gone, addressed to the users `to` or to all.
Visible(u, p, n, to) ==
  \/ u \in to
  \/ to = {} /\ (u \in Admins \/ members[p][u] # NoRole \/ GrantOn(u, p, n) # NoRole)

\* The devices of u are sent it: the same, but for a disabled account.
Pushed(u, disabled, p, n, to) ==
  /\ ~disabled
  /\ \/ u \in to
     \/ to = {} /\ (u \in Admins \/ members[p][u] # NoRole \/ GrantOn(u, p, n) # NoRole)

\* What Bora reads for a question.  The projects `coded` have a search context in
\* Sourcebot, which says so anew for each question and for any of them, or for none
\* while it does not answer; where code search is not set up, all count as coded.
BoraServes(u, p, coded) == AllTasks(u, p) /\ p \in coded
BoraReads(u, p, coded) == Listed(u, p) /\ BoraServes(u, p, coded)

\* Who lists a conversation that has read the projects `read`, of which some may be
\* gone: code search is not asked.
ConversationVisible(u, read) ==
  u \in Admins \/ \A p \in read : LiveProject(p) => members[p][u] # NoRole

(***************************************************************************)
(* The routes of a project and of a task, and the role each asks for       *)
(***************************************************************************)
ProjectRoutes == [getProject |-> "viewer", listMembers |-> "member",
                  updateProject |-> "owner", deleteProject |-> "owner",
                  addMember |-> "owner", removeMember |-> "owner"]
TaskRoutes == [listTasks |-> "viewer", getTask |-> "viewer", logs |-> "viewer",
               streamLogs |-> "viewer", streamMetrics |-> "viewer",
               deployTask |-> "operator", updateState |-> "operator", reportBuild |-> "operator",
               createTask |-> "member", updateTask |-> "member", deleteTask |-> "member",
               checkRoute |-> "member", setAssignees |-> "member",
               listGrants |-> "owner", grantTask |-> "owner", revokeGrant |-> "owner"]
Needs(route) ==
  IF route \in DOMAIN ProjectRoutes THEN ProjectRoutes[route] ELSE TaskRoutes[route]

LetIn(role, route) == Rank(role) >= Rank(Needs(route))

(***************************************************************************)
(* Bora's buttons.  What propose reads is Fleet's, of projects whose every *)
(* task the user reaches; RunBy is the route that runs what is confirmed.  *)
(***************************************************************************)
TaskOps == {"task.create", "task.delete", "task.update", "task.env", "task.start", "task.stop", "task.restart"}
MemberOps == {"member.add", "member.role", "member.remove"}
GrantOps == {"grant.add", "grant.remove"}
ProjectOps == {"project.update", "project.delete"}
Ops == TaskOps \cup MemberOps \cup GrantOps \cup ProjectOps

BoraNeeds(op) ==
  CASE op \in {"task.start", "task.stop", "task.restart"} -> "operator"
    [] op \in TaskOps \ {"task.start", "task.stop", "task.restart"} -> "member"
    [] OTHER -> "owner"

RunBy(op) ==
  CASE op \in {"task.start", "task.stop", "task.restart"} -> "updateState"
    [] op \in {"task.update", "task.env"} -> "updateTask"
    [] op = "task.create" -> "createTask"
    [] op = "task.delete" -> "deleteTask"
    [] op \in {"member.add", "member.role"} -> "addMember"
    [] op = "member.remove" -> "removeMember"
    [] op = "grant.add" -> "grantTask"
    [] op = "grant.remove" -> "revokeGrant"
    [] op = "project.update" -> "updateProject"
    [] op = "project.delete" -> "deleteProject"

\* Whom an op names: to others than administrators, someone outside looks like no one.
Person(x, p, n, op, u) ==
  /\ u \in accounts
  /\ x \in Admins \/ members[p][u] # NoRole \/ AnyInProject(u, p)
  /\ op = "member.add" => members[p][u] = NoRole
  /\ op \in {"member.role", "member.remove"} => members[p][u] # NoRole
  /\ op = "grant.remove" => GrantOn(u, p, n) # NoRole

\* As if a grant could be of any role.
SetAnyRole(op, role) ==
  op \in {"member.add", "member.role", "grant.add"} => role # NoRole

\* A member or grant op gets its role; a grant's stops at member.
SetRole(op, role) ==
  /\ op \in {"member.add", "member.role"} => role # NoRole
  /\ op = "grant.add" => role \notin {NoRole, "owner"}

\* The role an op is measured by: on the task when it has one, else on the project.
TaskRole(x, p, n, op) ==
  IF op \in TaskOps \cup GrantOps /\ HasTask(p, n) THEN FleetRole(x, p, n) ELSE ListedRole(x, p)

Proposable(x, p, n, op, u, role, coded) ==
  /\ BoraReads(x, p, coded)
  /\ op \in TaskOps \cup GrantOps => (HasTask(p, n) <=> op # "task.create")
  /\ Rank(TaskRole(x, p, n, op)) >= Rank(BoraNeeds(op))
  /\ op \in MemberOps \cup GrantOps => Person(x, p, n, op, u)
  /\ SetRole(op, role)

(***************************************************************************)
(* What Bora's tools tell of a project, and of the tasks in it, and the    *)
(* route where the user would read the same.                               *)
(***************************************************************************)
\* A question about everything reads these; one about a project reads that one.
Scope(u, coded) == {p \in ProjectIds : LiveProject(p) /\ BoraReads(u, p, coded)}

\* task_details and task_logs.
Finds(u, p, k, coded) == p \in Scope(u, coded) /\ HasTask(p, k)

\* metrics measures one task, or every one of the project.
Measures(u, p, n, k, coded) == Finds(u, p, k, coded) /\ n \in {k, NoName}

\* members and grants.
Owned(u, p, coded) == p \in Scope(u, coded) /\ ListedRole(u, p) = "owner"

ProjectTools == [list_tasks |-> "listTasks", project_settings |-> "getProject", members |-> "listMembers"]
TaskTools == [task_details |-> "getTask", task_logs |-> "logs", metrics |-> "streamMetrics",
              grants |-> "listGrants"]

TellsOfProject(u, p, tool, coded) ==
  p \in Scope(u, coded) /\ (tool = "members" => Owned(u, p, coded))
TellsOfTask(u, p, k, tool, coded) ==
  /\ Finds(u, p, k, coded)
  /\ tool = "metrics" => \E n \in Paths : Measures(u, p, n, k, coded)
  /\ tool = "grants" => Owned(u, p, coded)

\* The route lets the user in, and its handler finds what it needs.
RouteAccepts(x, p, n, op, u, role) ==
  /\ LetIn(Access(x, p, IF op \in TaskOps \cup GrantOps /\ op # "task.create" THEN n ELSE NoName),
           RunBy(op))
  /\ op \in TaskOps \cup GrantOps => (HasTask(p, n) <=> op # "task.create")
  /\ op \in MemberOps \cup GrantOps => u \in accounts
  /\ op \in {"member.add", "member.role"} => role \in ProjectRoles
  /\ op = "member.remove" => members[p][u] # NoRole
  /\ op = "grant.add" => role \in GrantRoles
  /\ op = "grant.remove" => GrantOn(u, p, n) # NoRole

(***************************************************************************)
(* Requests                                                                *)
(***************************************************************************)
At(c, l) == job[c] # Idle /\ job[c].at = l
Go(c, j) == job' = [job EXCEPT ![c] = j]
End(c) == Go(c, Idle)
Reads(c, j) == Go(c, j) /\ UNCHANGED tables
In(c, route) ==
  /\ At(c, "in") /\ LetIn(job[c].role, route)
  /\ job[c].name # NoName <=> route \in DOMAIN TaskRoutes \ {"createTask", "listTasks"}

HeldIds == {projects[s] : s \in Slugs} \cup
  {job[c].project : c \in {d \in Clients : job[d] # Idle /\ "project" \in DOMAIN job[d]}}
HeldTasks == {tasks[p][n] : p \in ProjectIds, n \in Names} \cup
  {job[c].task : c \in {d \in Clients : job[d] # Idle /\ "task" \in DOMAIN job[d]}}
HeldUsers == accounts \cup
  {job[c].user : c \in {d \in Clients : job[d] # Idle /\ "user" \in DOMAIN job[d]}} \cup
  UNION {job[c].added \cup job[c].removed : c \in {d \in Clients : At(d, "assign")}}

NoMembers == [u \in Users |-> NoRole]
NoTasks == [n \in Names |-> NoTask]

\* The role of the least path is looked up for every route but the public ones.
Authorize(c, x, s, n) ==
  LET p == projects[s]
  IN /\ job[c] = Idle
     /\ x \in accounts /\ p # NoProject
     /\ Access(x, p, n) # NoRole
     /\ Reads(c, [at |-> "in", user |-> x, slug |-> s, name |-> n, project |-> p,
                  role |-> Access(x, p, n)])

\* Creating a project is for administrators: the row first, its owner after that.
CreateProject(c, x, s, p) ==
  /\ job[c] = Idle
  /\ x \in accounts \cap Admins
  /\ projects[s] = NoProject /\ p \notin HeldIds
  /\ projects' = [projects EXCEPT ![s] = p]
  /\ Go(c, [at |-> "owner", user |-> x, project |-> p])
  /\ UNCHANGED <<accounts, tasks, members, grants>>

AddOwner(c) ==
  /\ At(c, "owner")
  /\ LiveProject(job[c].project) /\ job[c].user \in accounts
  /\ members' = [members EXCEPT ![job[c].project][job[c].user] = "owner"]
  /\ End(c)
  /\ UNCHANGED <<accounts, projects, tasks, grants>>

\* As if a project with another member could lose its owner.
KeepOwnerOrMember(p, u) == {v \in Users : members[p][v] # NoRole} # {u}

\* keepOwner: the last owner neither goes nor gets another role.
KeepOwner(p, u) == Owners(p) # {u}

\* The project is looked up by its slug again, whichever one the route was let in to.
AddMember(c, u, role) ==
  /\ In(c, "addMember")
  /\ LET p == projects[job[c].slug]
     IN /\ p # NoProject
        /\ role # "owner" => KeepOwner(p, u)
        /\ Reads(c, [at |-> "member", user |-> u, project |-> p, role |-> role, seen |-> Owners(p)])

RemoveMember(c, u) ==
  /\ In(c, "removeMember")
  /\ LET p == projects[job[c].slug]
     IN /\ p # NoProject /\ KeepOwner(p, u)
        /\ Reads(c, [at |-> "member", user |-> u, project |-> p, role |-> NoRole, seen |-> Owners(p)])

\* AddMember's upsert, whose foreign keys want project and user; RemoveMember's delete.
WriteMember(c) ==
  /\ At(c, "member")
  /\ LET p == job[c].project
         u == job[c].user
     IN /\ LiveProject(p) /\ u \in accounts
        /\ job[c].role = NoRole => members[p][u] # NoRole
        /\ members' = [members EXCEPT ![p][u] = job[c].role]
  /\ End(c)
  /\ UNCHANGED <<accounts, projects, tasks, grants>>

\* Grant and Revoke resolve slug and name again, then write one row.
Grant(c, u, role) ==
  /\ \/ In(c, "grantTask") /\ role \in GrantRoles
     \/ In(c, "revokeGrant") /\ role = NoRole
  /\ LET p == projects[job[c].slug]
     IN /\ p # NoProject /\ HasTask(p, job[c].name)
        /\ Reads(c, [at |-> "grant", user |-> u, task |-> TaskAt(p, job[c].name), role |-> role])

\* An upsert whose foreign keys want task and user, or a delete that must find a row.
WriteGrant(c) ==
  /\ At(c, "grant")
  /\ LET t == job[c].task
         u == job[c].user
     IN /\ LiveTask(t) /\ u \in accounts
        /\ job[c].role = NoRole => grants[t][u] # NoRole
        /\ grants' = [grants EXCEPT ![t][u] = job[c].role]
  /\ End(c)
  /\ UNCHANGED <<accounts, projects, tasks, members>>

\* What is left to write of a change of assignees.
Assigning(t, added, removed) ==
  IF added = {} /\ removed = {} THEN Idle
  ELSE [at |-> "assign", task |-> t, added |-> added, removed |-> removed]

\* SetAssignees makes `us` the users with a grant; below owner, members assign members.
\* Also the second half of a createTask that names people.
SetAssignees(c, us) ==
  /\ In(c, "setAssignees") \/ At(c, "made")
  /\ LET p == job[c].project
         t == TaskAt(p, job[c].name)
         had == {u \in Users : grants[t][u] # NoRole}
     IN /\ HasTask(p, job[c].name)
        /\ \/ job[c].role = "owner"
           \/ /\ Rank(members[p][job[c].user]) >= Rank("member")
              /\ \A u \in (us \ had) \cup (had \ us) : members[p][u] # NoRole
        /\ Reads(c, Assigning(t, us \ had, had \ us))

\* One row at a time: every grant of the added first, then the grants of the removed.
Assign(c, u) ==
  /\ At(c, "assign") /\ u \in job[c].added
  /\ LiveTask(job[c].task) /\ u \in accounts
  /\ grants' = [grants EXCEPT ![job[c].task][u] = "member"]
  /\ Go(c, Assigning(job[c].task, job[c].added \ {u}, job[c].removed))
  /\ UNCHANGED <<accounts, projects, tasks, members>>

Unassign(c, u) ==
  /\ At(c, "assign") /\ job[c].added = {} /\ u \in job[c].removed
  /\ grants' = [grants EXCEPT ![job[c].task][u] = NoRole]
  /\ Go(c, Assigning(job[c].task, {}, job[c].removed \ {u}))
  /\ UNCHANGED <<accounts, projects, tasks, members>>

DeleteProject(c) ==
  /\ In(c, "deleteProject")
  /\ projects[job[c].slug] # NoProject
  /\ Reads(c, [at |-> "drop", project |-> projects[job[c].slug]])

\* As if the delete left the rows of the members.
DropProjectAlone(c) ==
  /\ At(c, "drop")
  /\ LiveProject(job[c].project) /\ tasks[job[c].project] = NoTasks
  /\ projects' = [s \in Slugs |-> IF projects[s] = job[c].project THEN NoProject ELSE projects[s]]
  /\ End(c)
  /\ UNCHANGED <<accounts, tasks, members, grants>>

\* The delete is refused while the project has tasks; it takes the members with it.
DropProject(c) ==
  /\ At(c, "drop")
  /\ LiveProject(job[c].project) /\ tasks[job[c].project] = NoTasks
  /\ projects' = [s \in Slugs |-> IF projects[s] = job[c].project THEN NoProject ELSE projects[s]]
  /\ members' = [members EXCEPT ![job[c].project] = NoMembers]
  /\ End(c)
  /\ UNCHANGED <<accounts, tasks, grants>>

\* The rows of TaskLifecycle's Create and Delete; grants go with their task.
CreateTask(c, n, t) ==
  /\ In(c, "createTask")
  /\ LET p == projects[job[c].slug]
     IN /\ p # NoProject /\ ~HasTask(p, n) /\ t \notin HeldTasks
        /\ tasks' = [tasks EXCEPT ![p][n] = t]
  /\ End(c) \/ Go(c, [job[c] EXCEPT !.at = "made", !.name = n])
  /\ UNCHANGED <<accounts, projects, members, grants>>

DeleteTask(c) ==
  /\ In(c, "deleteTask")
  /\ LET p == projects[job[c].slug]
         n == job[c].name
     IN /\ p # NoProject /\ HasTask(p, n)
        /\ tasks' = [tasks EXCEPT ![p][n] = NoTask]
        /\ grants' = [grants EXCEPT ![TaskAt(p, n)] = NoMembers]
  /\ End(c)
  /\ UNCHANGED <<accounts, projects, members>>

\* Accounts come and go; memberships and grants go with them.
CreateUser(u) ==
  /\ u \notin HeldUsers
  /\ accounts' = accounts \cup {u}
  /\ UNCHANGED <<projects, tasks, members, grants, job>>

DeleteUser(u) ==
  /\ u \in accounts /\ \E x \in accounts \cap Admins : x # u
  /\ accounts' = accounts \ {u}
  /\ members' = [p \in ProjectIds |-> [members[p] EXCEPT ![u] = NoRole]]
  /\ grants' = [t \in TaskIds |-> [grants[t] EXCEPT ![u] = NoRole]]
  /\ UNCHANGED <<projects, tasks, job>>

\* A refusal, a statement that fails, or a client that is gone.
Fail(c) == job[c] # Idle /\ End(c) /\ UNCHANGED tables

Init ==
  /\ accounts = Users
  /\ projects = [s \in Slugs |-> NoProject]
  /\ tasks = [p \in ProjectIds |-> NoTasks]
  /\ members = [p \in ProjectIds |-> NoMembers]
  /\ grants = [t \in TaskIds |-> NoMembers]
  /\ job = [c \in Clients |-> Idle]

OnProjects(c) ==
  \/ \E x \in Users, s \in Slugs, p \in ProjectIds : CreateProject(c, x, s, p)
  \/ AddOwner(c) \/ DeleteProject(c) \/ DropProject(c)
  \/ \E u \in Users : RemoveMember(c, u) \/ \E r \in AddedRoles : AddMember(c, u, r)
  \/ WriteMember(c)

OnTasks(c) ==
  \/ \E n \in Names, t \in TaskIds : CreateTask(c, n, t)
  \/ DeleteTask(c)
  \/ \E u \in Users, r \in GrantedRoles \cup {NoRole} : Grant(c, u, r)
  \/ WriteGrant(c)
  \/ \E us \in SUBSET Users : SetAssignees(c, us)
  \/ \E u \in Users : Assign(c, u) \/ Unassign(c, u)

Next ==
  \/ \E c \in Clients :
       \/ \E x \in Users, s \in Slugs, n \in Paths : Authorize(c, x, s, n)
       \/ OnProjects(c) \/ OnTasks(c) \/ Fail(c)
  \/ \E u \in Users : CreateUser(u) \/ DeleteUser(u)

Spec == Init /\ [][Next]_vars

(***************************************************************************)
(* Properties                                                              *)
(***************************************************************************)
\* Every variable has its type, and the tables hold together: members are
\* accounts in a project that exists, grants are of accounts on a task that
\* exists in such a project, and no id has two rows.
TypeOK ==
  /\ accounts \subseteq Users
  /\ projects \in [Slugs -> ProjectIds \cup {NoProject}]
  /\ tasks \in [ProjectIds -> [Names -> TaskIds \cup {NoTask}]]
  /\ members \in [ProjectIds -> [Users -> Roles]]
  /\ grants \in [TaskIds -> [Users -> GrantRoles \cup {NoRole}]]
  /\ job \in [Clients -> Job \cup {Idle}]
  /\ \A r, s \in Slugs : projects[r] = projects[s] /\ projects[r] # NoProject => r = s
  /\ \A p \in ProjectIds, n \in Names : HasTask(p, n) =>
       /\ LiveProject(p)
       /\ \A q \in ProjectIds, k \in Names : TaskAt(q, k) = TaskAt(p, n) => q = p /\ k = n
  /\ \A p \in ProjectIds, u \in Users :
       members[p][u] # NoRole => LiveProject(p) /\ u \in accounts
  /\ \A t \in TaskIds, u \in Users : grants[t][u] # NoRole => LiveTask(t) /\ u \in accounts

\* A project loses its last owner only with an account, or to a request whose
\* check counted other owners than there are when it writes (keepOwner).
LastOwnerKept ==
  [][\A p \in ProjectIds :
       LiveProject(p) /\ LiveProject(p)' /\ Owners(p) # {} /\ Owners(p)' = {} =>
         \/ accounts' # accounts
         \/ \E c \in Clients : At(c, "member") /\ job'[c] = Idle /\ job[c].seen # Owners(p)]_vars

\* Whichever projects have code, Bora's tools tell nobody what their own route would
\* refuse.  A conversation is hidden from nobody while Bora still reads all that is in
\* it, and listed to nobody whom a project in it keeps out ("hidden while a project its
\* answers read is out of their reach"); between the two is one that only lacks a search
\* context.
BoraKeepsTo(p, u, coded) ==
  /\ \A n \in Names, tool \in DOMAIN TaskTools :
       TellsOfTask(u, p, n, tool, coded) => LetIn(Access(u, p, n), TaskTools[tool])
  /\ \A tool \in DOMAIN ProjectTools :
       TellsOfProject(u, p, tool, coded) => LetIn(Access(u, p, NoName), ProjectTools[tool])
  /\ \A read \in SUBSET ProjectIds :
       /\ (\A q \in read : LiveProject(q) => BoraReads(u, q, coded)) => ConversationVisible(u, read)
       /\ ConversationVisible(u, read) =>
            \A q \in read, n \in Paths : LiveProject(q) => Access(u, q, n) # NoRole

\* What a user is let in to, what the overview lists, whom a notification reaches
\* and whose devices it is pushed to are one and the same, and Bora keeps to it.
ReachIsOne(p, u) ==
  /\ Listed(u, p) <=> Access(u, p, NoName) # NoRole
  /\ Listed(u, p) => ListedRole(u, p) = Access(u, p, NoName)
  /\ \A n \in Names :
       /\ HasTask(p, n) => FleetRole(u, p, n) = Access(u, p, n)
       /\ Visible(u, p, n, {}) <=> Access(u, p, n) # NoRole
       /\ \A disabled \in BOOLEAN, to \in SUBSET Users :
            Pushed(u, disabled, p, n, to) <=> Visible(u, p, n, to) /\ ~disabled
  /\ \A coded \in SUBSET ProjectIds : BoraKeepsTo(p, u, coded)

\* Of the tables as they are with nobody at work, the computations of what a user may
\* reach say the same (Access, List and Fleet, `visible`, Tokens), and Bora's no more
\* (BoraServes, visibleConversation).
AccessAgrees ==
  (\A c \in Clients : job[c] = Idle) =>
    \A p \in ProjectIds, u \in accounts : LiveProject(p) => ReachIsOne(p, u)

\* Bora offers a button only for a change that the route which would run it accepts
\* from this user.
OfferIsAccepted(p, x, n, op, u, role) ==
  (\E coded \in SUBSET ProjectIds : Proposable(x, p, n, op, u, role, coded)) =>
    /\ BoraNeeds(op) = Needs(RunBy(op))
    /\ RouteAccepts(x, p, n, op, u, role)

\* With nobody at work, "propose checks what the route will check again".  Taking
\* the last owner's role is the one offer the route still refuses.
ProposalsMatchRoutes ==
  (\A c \in Clients : job[c] = Idle) =>
    \A p \in ProjectIds, x, u \in accounts, n \in Names, op \in Ops, role \in Roles :
      LiveProject(p) => OfferIsAccepted(p, x, n, op, u, role)
=============================================================================
