SPECIFICATION Spec
CONSTANTS
  Autodetect = {TRUE, FALSE}
  Wanted = {{1}, {2}, {1, 2}}
  Rounds = 2
  MaxBatch = 2
  MaxStarts = 2
  MaxClients = 1
PROPERTY FallsBack
