SPECIFICATION FairSpec
CONSTANTS
  r1 = r1  l1 = l1  l2 = l2  None = None
  own = own  drawn = drawn  mt = mt  web = web  tick = tick
  bad = bad  stray = stray  empty = empty
  Items <- AllItems  Routes <- OneRoute  Loops <- TwoLoops
  Kind <- EachKind  Target <- ToRoute1  OwnSeq <- Numbers
  maxRetries = 2  maxTicks = 1  SeqMod = 2  Duplicates = 0
  Scenarios <- EveryScenario  Workload <- Submitted  Slots <- OverlapIn
INVARIANTS Conservation RouteExclusive LoopAlive NothingLost AttemptsKept OneOutstanding AckedWasReceived
PROPERTIES StopAndWaitSpec EveryReportSettles
