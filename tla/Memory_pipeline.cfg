SPECIFICATION FairSpec
CONSTANTS
  Threads = {"k1", "c1"}
  Tasks = {"k1"}
  Turns = {"c1"}
  Profile <- MCProfile
  MemIds = {1, 2, 3, 4}
  MaxItems <- MCMaxItems
  MaxDisturbances = 1
  MaxCrashes = 1
INVARIANTS TypeOK TaskMemoryIsEarned SupersededHasSuccessor EveryListenerIsCalled
PROPERTIES ProfilesAreIsolated AnnouncedBecomesDurable
CHECK_DEADLOCK FALSE
