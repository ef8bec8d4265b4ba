SPECIFICATION FairSpec
CONSTANTS
  q1 = q1  q2 = q2  q3 = q3  door = door  pump = pump
  Requests = {q1, q2, q3}  IDs = {door, pump}  IdOf <- Ids
  maxRoutes = 3  maxRouters = 2
  Scenarios = {{"blip"}, {"concurrent"}, {"bare", "drop"}, {"concurrent", "bare", "drop", "blip", "slow"}}
CHECK_DEADLOCK FALSE
INVARIANTS OneRoute OneRouter SettingsRouted
PROPERTY EveryPeripheralServed
