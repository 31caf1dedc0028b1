SPECIFICATION TimedSpec
CONSTANTS
  r1 = r1
  r2 = r2
  Repos = {r1, r2}
  MaxRetries = 1
  Events = {"crash", "uncaught", "cloneFails", "cancel", "timeout", "embedTimeout", "embedClash"}
  MaxJobs = 1
  MaxEmbeds = 2
  MaxDeletes = 0
  MaxUnread = 1
INVARIANTS
  TypeOK
  OneWorkerPerJob
PROPERTIES
  EmbedFailedStays
  JobsEnd
CHECK_DEADLOCK FALSE
