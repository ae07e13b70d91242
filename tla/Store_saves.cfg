SPECIFICATION FairSpec
CONSTANTS
  Entities = {e1}
  Detected = detected
  States = {s0}
  Absent = absent
  Truncated = truncated
  Torn = torn
  Threads = {reader, loop}
  Delay = 1
  MaxCalls = 2
  MaxJobs = 1
  Fallible = TRUE
INVARIANTS TypeOK FileIntact NoLostSave
PROPERTIES EventuallySaved ImplementsDurableCell
