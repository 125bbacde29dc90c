\* One viewer, again and again: what it and the hub hold is given back.
SPECIFICATION FairSpec
CONSTANTS
  Sources = {web}
  Feeds = {f1, f2}
  NoFeed = NoFeed
  Viewers = {x}
  NoSub = NoSub
  History = 1
  Room = 1
PROPERTIES
  AbandonedViewsEnd
  UnwatchedStreamsEnd
