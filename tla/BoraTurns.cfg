\* One conversation, two requests at a time, and two turns: one that ended and the next.
SPECIFICATION FairSpec
CONSTANTS
  ann = ann
  Convs = {talk}
  Users = {ann}
  Owner <- MCOwner
  Clients = {x, y}
  Turns = {t1, t2}
  NoTurn = NoTurn
  PerUser = 2
  InFlight = 2
  MaxRounds = 1
  MaxExchanges = 2
INVARIANTS
  TypeOK
  PlacesBounded
  ExchangesInOrder
  MissingIsGone
PROPERTIES
  TalkKept
  FollowersHearTheEnd
