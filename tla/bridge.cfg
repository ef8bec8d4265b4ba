SPECIFICATION FairSpec
CONSTANTS
  Https <- Default  Primary = "public"  SeqMod = 3  maxMessages = 1  maxAsked = 1
  Scenarios = {{}, {"again", "jitter"}, {"busy", "own"}, {"command", "stop", "jitter"},
               {"busy", "again", "crossing", "stop"}}
INVARIANTS AcksSorted
PROPERTY LinkKept
