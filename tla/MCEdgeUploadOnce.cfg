CONSTANTS
  r1 = r1  r2 = r2
  MaxEvents = 2
  Stamps = {1}
  BatchSize = 2
  MaxAttempts = 1
  MaxBackoff = 0
  Requests = {r1}
  Poison = {}
  NoRequest = NoRequest
SPECIFICATION Spec

INVARIANT StoredOnce
CHECK_DEADLOCK FALSE
