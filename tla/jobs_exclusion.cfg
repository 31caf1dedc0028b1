SPECIFICATION Spec
CONSTANTS
  r1 = r1
  r2 = r2
  Repos = {r1}
  MaxRetries = 1
  Events = {"cloneFails", "slowInit"}
  MaxJobs = 1
  MaxEmbeds = 1
  MaxDeletes = 1
  MaxUnread = 1
INVARIANTS
  MutualExclusion
