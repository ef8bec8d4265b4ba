SPECIFICATION Spec
CONSTANTS
  gateway = gateway  heartbeat = heartbeat  c1 = c1  c2 = c2
  nothing = nothing  one = one  other = other  both = both
  None = None  Unset = Unset  Asked = Asked
  Targets <- AllTargets  Early = {gateway}  Hashes <- AllHashes  Config <- Settings
  maxNudges = 1  maxPending = 4  Scenarios = {{"blip"}}
INVARIANT Agree
