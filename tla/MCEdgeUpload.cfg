CONSTANTS
  r1 = r1  r2 = r2
  MaxEvents = 3
  Stamps = {1, 2}
  BatchSize = 2
  MaxAttempts = 0
  MaxBackoff = 1
  Requests = {r1, r2}
  Poison = {2}
  NoRequest = NoRequest
SPECIFICATION FairSpec
INVARIANTS TypeOK OldestFirst
PROPERTIES KeepsPromise EventuallyIngested
CHECK_DEADLOCK FALSE
