CONSTANTS
  c1 = c1  a1 = a1  a2 = a2
  Cameras = {c1}
  Values = {1, 2}
  Default = 1
  Keep = Keep
  Admins = {a1, a2}
  Limit = 1
  MaxPatches = 2
  MaxCommands = 2
  MaxMillis = 1
  MaxRestarts = 1
  NoCamera = NoCamera
SPECIFICATION FairSpec
INVARIANT TypeOK
PROPERTIES MirrorsConfig StaysInStep EventuallyAgrees QueueDrains
CHECK_DEADLOCK FALSE
