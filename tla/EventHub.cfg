\* One page, whose old stream may still hold a place when it connects again.
SPECIFICATION FairSpec
CONSTANTS
  Writers = {v, w}
  Pages = {tab}
  Streams = {s1, s2}
  NoStream = NoStream
  MaxPublicStreams = 2
  MaxChanges = 2
INVARIANTS
  TypeOK
  HubKnowsOpenStreams
  SlotsAreStreams
  NoLostSignal
PROPERTIES
  PagesCatchUp
  ShutdownEndsStreams
