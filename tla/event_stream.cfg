SPECIFICATION FairSpec
CONSTANTS
  f1 = f1
  w1 = w1
  Followers = {f1}
  Watchers = {w1}
  KeepEvents = 2
  QueueSize = 2
  MaxEvents = 4
INVARIANTS
  SentInOrder
  FollowerSeesTheEnd
PROPERTIES
  FollowersEnd
  WatchersEnd
CHECK_DEADLOCK FALSE
