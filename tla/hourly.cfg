SPECIFICATION FairSpec
CONSTANTS
  Https <- Default  Primary = "public"  SeqMod = 3  maxMessages = 1  maxAsked = 1
  Scenarios = {{}}
INVARIANT HeartbeatHourly
