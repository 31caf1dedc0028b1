SPECIFICATION FairSpec
CONSTANTS
  r1 = r1
  r2 = r2
  Repos = {r1, r2}
  MaxRetries = 2
  Events = {"crash", "spawnFails", "initFails", "embedCancel"}
  MaxJobs = 2
  MaxEmbeds = 1
  MaxDeletes = 1
  MaxUnread = 1
INVARIANTS
  MutualExclusion
  UsersHoldLock
PROPERTIES
  LocksReleased
