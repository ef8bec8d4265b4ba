SPECIFICATION CheckerFairSpec
CONSTANTS
  pppd = pppd  ntpd = ntpd  p1 = p1  p2 = p2  p3 = p3
  Items <- MCItems  Ports <- MCPorts
  NoPort = NoPort
  commands = 2  maxLate = 2
  CheckerScenarios = {{}, {"late"}, {"twice", "redisError"}, {"late", "silent"}}
INVARIANTS OnceInOrder
PROPERTIES CheckEnds
CHECK_DEADLOCK FALSE
