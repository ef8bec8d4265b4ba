SPECIFICATION FairSpec
CONSTANTS
  telnet = telnet  serial = serial  odd = odd  adhoc = adhoc  off = off
  sched1 = sched1  sched2 = sched2  empty = empty  bad = bad  None = None
  Conns = {telnet, serial, odd}  Known = {telnet, serial}  Cmds <- AllCmds  Routing <- AllRoutes
  maxCommands = 2  maxPending = 1
  Scenarios = {{"midwrite"}, {"error", "midwrite"}, {"error", "both"}, {"error", "midwrite", "odd"},
               {"error", "both", "blip", "midwrite"}, {"hasty"}}
CHECK_DEADLOCK FALSE
INVARIANTS SettingsCarriedOut NothingLeft OneCommand
PROPERTY QueueServed
