SPECIFICATION Spec
CONSTANTS
  SectionCodes = {256, 784, 1792}
  NumSections = 2
  FireSections = {1}
  Devices = {38, 101}
  Known = {38}
  WithBattery = {0, 38}
  Sirens = {38}
  Buses = {2}
  Lan = 233
  MaxSent = 3
  MaxReads = 1
INVARIANTS TypeOK Truthful Announced 
