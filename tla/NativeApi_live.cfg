SPECIFICATION FairSpec
CONSTANTS
  Clients = {c1, c2}
  Loggers = {}
  Watchers = {c2}
  Commanders = {c1}
  Values = {off, on}
  Initial = off
  Unknown = unknown
PROPERTIES  LostLeaves
