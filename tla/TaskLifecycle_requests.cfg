\* Two requests at a time for one task, any of whose calls may fail.
SPECIFICATION FairSpec
CONSTANTS
  Tasks = {web}
  Images = {i1}
  Confs = {c1}
  Cids = {k1, k2}
  NoCid = NoCid
  Addrs = {a1}
  NoAddr = NoAddr
  RouteSets = {r0, r1}
  NoRoutes = r0
  Hashes = {h0}
  NoHash = h0
  NoRow = NoRow
  Unused = Unused
  Removed = Removed
  Names = {web}
  ContainerName <- NameOfItsOwn
  NoHop = NoHop
  Sites = {web}
  SiteOf <- SiteOfItsOwn
  Clients = {x, y}
  NoJob = NoJob
  Ops = {"create", "start", "stop", "restart", "update", "delete"}
  Faults = {"store", "runtime"}
PROPERTIES
  SettingsChangeOnlyByUpdate
  RequestsAnswered
