SPECIFICATION FairSpec
CONSTANTS
  b1 = b1  b2 = b2   c1 = c1  c2 = c2
  Browsers <- MCBrowsers  Commands <- MCCommands
  None = None
  maxQueue = 1  Scenarios = {{"hasty"}, {"drop"}, {"drop", "abrupt"}, {"busyActs", "hasty"}}
INVARIANTS NoOrphan OneBrowserServed
PROPERTIES EveryCommandOver
CHECK_DEADLOCK FALSE
