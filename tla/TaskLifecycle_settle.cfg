\* Docker may fail, the table does not.
SPECIFICATION Spec
CONSTANTS
  Tasks = {web}
  Images = {i1, i2}
  Confs = {c1}
  Cids = {k1, k2, k3}
  NoCid = NoCid
  Addrs = {a1, a2}
  NoAddr = NoAddr
  RouteSets = {r0, r1}
  NoRoutes = r0
  Hashes = {h0}
  NoHash = h0
  NoRow = NoRow
  Unused = Unused
  Removed = Removed
  Names = {web}
  ContainerName <- NameOfItsOwn
  NoHop = NoHop
  Sites = {web}
  SiteOf <- SiteOfItsOwn
  Clients = {x}
  NoJob = NoJob
  Ops = {"create", "start", "stop", "restart", "update", "deploy", "delete"}
  Faults = {"runtime", "pull", "ready", "external", "exit"}
SYMMETRY Symmetry
INVARIANTS
  TransitionsSettle
  NoOrphanContainers
