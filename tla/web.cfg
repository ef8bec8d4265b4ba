SPECIFICATION FairSpec
CONSTANTS
  s1 = s1  s2 = s2  c1 = c1  c2 = c2  c3 = c3  r1 = r1
  Sockets <- TwoSockets  Commands <- ThreeCommands  Sender <- Senders  Routes <- OneRoute
  None = None  Timeout = Timeout
  maxPending = 2  Scenarios = {{"lost"}, {"late"}, {"late", "error"}}
INVARIANTS AnswerToOwnCommand AnswerInTime
PROPERTIES EveryCommandAnswered
CHECK_DEADLOCK FALSE
