SPECIFICATION FairSpec
CONSTANTS
  Initial = {sensor, switch}
  Dynamic = {}
  Late = {sensor, switch}
  Skipping = {sensor}
  Switches = {switch}
  Values = {off, on}
  Off = off
  None = none
  Missing = missing
  Syncs = {}
  LogSuspends = TRUE
INVARIANT LastIsShown
PROPERTY EventuallyMirrored
