CONSTANTS
  Task = {a, b}
  Booting = {a}
  MaxVisits = 2
  MaxOutputs = 1
  MaxStops = 1
  MaxFaults = 1
  a = a
  b = b
SPECIFICATION FairSpec
INVARIANTS TypeOK SocketsOwned  InputToShownTask NotFoundExplained
 
CHECK_DEADLOCK FALSE
