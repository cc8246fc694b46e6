CONSTANTS
  Daemons = {"d1", "d2"}
  Feeds = {"f1", "f2"}
  Instances <- MCInstances
  Contents = {1}
  TTL = 1
  Tokens = {1, 2}
SPECIFICATION Spec
INVARIANT FreshMeansFetched
PROPERTIES BrokenFeedExpires AuthRecovers MergedSettles
