SPECIFICATION Spec
CONSTANTS
  a = a
  Users = {a, b}
  Admins <- MCAdmins
  ProjectIds = {p1, p2}
  NoProject = NoProject
  TaskIds = {t1, t2}
  NoTask = NoTask
  Slugs = {s}
  Names = {n}
  NoName = NoName
  AddedRoles <- MCAddedRoles
  GrantedRoles <- MCGrantedRoles
  Clients = {c1, c2}
  Idle = Idle
SYMMETRY Symmetry
INVARIANTS TypeOK AccessAgrees ProposalsMatchRoutes
PROPERTY LastOwnerKept
