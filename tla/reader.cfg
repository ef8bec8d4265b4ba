SPECIFICATION FairSpec
CONSTANTS
  c1 = c1  c2 = c2  None = None
  Commands = {c1, c2}  maxLine = 2
  Scenarios = {{"early", "stop"}, {"late", "cut", "early"}, {"late", "cut", "early", "stop", "overlap"}}
INVARIANTS OwnResponseInTime
PROPERTIES CalledOnce EveryCommandEnds
