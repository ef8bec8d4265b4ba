SPECIFICATION SupervisorFairSpec
CONSTANTS
  g1 = g1  g2 = g2  c1 = c1  c2 = c2
  Gateways <- MCGateways  Cellulars <- MCCellulars
  Absent = Absent  Unchecked = Unchecked
  maxOutputs = 2
  SupScenarios = {{"waiting", "unset"}, {"blip", "quit", "slowShell"}, {"unset"}, {}, {"blip", "shellError", "slowPort"}}
INVARIANTS NeverThrows RunTogether
PROPERTIES PppTracked
CHECK_DEADLOCK FALSE
