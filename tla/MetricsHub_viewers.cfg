\* Two viewers of one container; two feed objects, so that one may end while the next is on the map.
SPECIFICATION Spec
SYMMETRY Symmetry
CONSTANTS
  Sources = {web}
  Feeds = {f1, f2}
  NoFeed = NoFeed
  Viewers = {x, y}
  NoSub = NoSub
  History = 1
  Room = 1
INVARIANTS
  TypeOK
  SubscribedChannelsOpen
  OpenChannelsServed
  OneStreamPerSource
  WatchedFeedRuns
