\* Images and readiness may fail; Boreas may restart at any step.
SPECIFICATION Spec
CONSTANTS
  Tasks = {web}
  Images = {i1, i2}
  Confs = {c1, c2}
  Cids = {k1, k2}
  NoCid = NoCid
  Addrs = {a1, a2}
  NoAddr = NoAddr
  RouteSets = {r0, r1}
  NoRoutes = r0
  Hashes = {h0, h1}
  NoHash = h0
  NoRow = NoRow
  Unused = Unused
  Removed = Removed
  Names = {web}
  ContainerName <- NameOfItsOwn
  NoHop = NoHop
  Sites = {web}
  SiteOf <- SiteOfItsOwn
  Clients = {x}
  NoJob = NoJob
  Ops = {"create", "start", "stop", "restart", "update", "deploy", "delete"}
  Faults = {"pull", "ready", "crash"}
SYMMETRY Symmetry
INVARIANTS
  RegistryMirrorsRow
  HopIsCurrent
