SPECIFICATION FairSpec
CONSTANTS
  Initial = {panel}
  Dynamic = {sensor}
  Late = {sensor}
  Skipping = {panel, sensor}
  Switches = {}
  Values = {off, on}
  Off = off
  None = none
  Missing = missing
  Syncs = {s1}
  LogSuspends = FALSE
INVARIANTS TypeOK 
PROPERTY EventuallyMirrored
