\* Two accounts at most, two requests at a time, one token at a time, one pairing code.
SPECIFICATION Spec
SYMMETRY Symmetry
CONSTANTS
  Users = {a, u}
  NoUser = NoUser
  Gone = Gone
  Passwords = {p}
  Asks <- SomeAsks
  Keep = Keep
  Tokens = {t1}
  Free = Free
  Codes = {k1}
  Unused = Unused
  Spent = Spent
  Clients = {x, y}
  Idle = Idle
  MaxChanged = 2
INVARIANTS
  TypeOK
  RevokedStayOut
  PairingOnce
