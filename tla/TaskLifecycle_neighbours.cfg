\* Three tasks: "web" and "Web" fold to one site, "web" and "api" spell one Docker name.
SPECIFICATION Spec
CONSTANTS
  Tasks = {"web", "Web", "api"}
  Images = {i1}
  Confs = {c1}
  Cids = {k1, k2}
  NoCid = NoCid
  Addrs = {a1}
  NoAddr = NoAddr
  RouteSets = {r0, r1}
  NoRoutes = r0
  Hashes = {h0}
  NoHash = h0
  NoRow = NoRow
  Unused = Unused
  Removed = Removed
  Names = {"name", "own"}
  ContainerName <- SharedName
  NoHop = NoHop
  Sites = {"site", "other"}
  SiteOf <- SharedSite
  Clients = {x, y}
  NoJob = NoJob
  Ops = {"create", "update", "delete"}
  Faults = {"runtime"}
SYMMETRY Symmetry
INVARIANTS
  SitesHaveRows
PROPERTIES
  ForeignContainersUntouched
