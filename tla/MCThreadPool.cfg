CONSTANTS
  MaxThreads = 3
  MaxTasks = 4
SPECIFICATION FairSpec
INVARIANTS
  Inv
  AllRunBeforeDestroyed
  NoThreadOutlivesPool
  RunAtMostOnce
  OneSignalPerLiveThread
PROPERTIES
  StepsRunOut
  BegunInOrder
  DestructorReturns
