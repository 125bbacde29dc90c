SPECIFICATION Spec
CONSTANTS
  Project = "p"
  Tasks = {"web", "blog"}
  Means <- NamesMean
  Backends = {"pay", "docs"}
  Boreas = "boreas"
  Hashes <- HashesOf
  h1 = h1
  h2 = h2
  g1 = g1
  NoHash = NoHash
  Offered <- RoutesOffered
  Rests <- RestsAsked
  Tabs = {"tab"}
  MaxChanges = 1
SYMMETRY Symmetry
INVARIANTS TypeOK LockKeeps CookiesStayHome RedirectsArrive
