CONSTANTS
  h1 = h1  h2 = h2
  Handlers = {h1, h2}
  Threshold = 1
  Ttl = 2
  PersistEvery = 1
  MaxFaults = 1
  NoTimer = NoTimer
SPECIFICATION FairSpec
INVARIANTS TypeOK NoDoubles NoEarlyAlert NoSpuriousRestart
PROPERTIES GapIsAlerted RecoveryAcknowledges
CHECK_DEADLOCK FALSE
