\* One task, one request at a time, every fault: the inductive invariant.
SPECIFICATION Spec
CONSTANTS
  Tasks = {web}
  Images = {i1, i2}
  Confs = {c1}
  Cids = {k1, k2}
  NoCid = NoCid
  Addrs = {a1, a2}
  NoAddr = NoAddr
  RouteSets = {r0, r1}
  NoRoutes = r0
  Hashes = {h0}
  NoHash = h0
  NoRow = NoRow
  Unused = Unused
  Removed = Removed
  Names = {web}
  ContainerName <- NameOfItsOwn
  NoHop = NoHop
  Sites = {web}
  SiteOf <- SiteOfItsOwn
  Clients = {x}
  NoJob = NoJob
  Ops = {"create", "start", "stop", "restart", "update", "deploy", "delete"}
  Faults = {"store", "runtime", "lost", "pull", "ready", "exit", "external", "crash"}
SYMMETRY Symmetry
INVARIANTS
  TypeOK
  PendingTracksSpec
