SPECIFICATION Spec
CONSTANTS
  Clients = {c1, c2}
  Loggers = {c1, c2}
  Watchers = {c1, c2}
  Commanders = {}
  Values = {off, on}
  Initial = off
  Unknown = unknown
INVARIANTS TypeOK NoSilentMiss
