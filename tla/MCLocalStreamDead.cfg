CONSTANTS
  r1 = r1  r2 = r2  w1 = w1  w2 = w2  p1 = p1  p2 = p2  p3 = p3
  Requests = {r1}
  Workers = {w1}
  Procs = {p1, p2}
  NoProc = NoProc
  NoWorker = NoWorker
  RedisFails = FALSE
  MaxCrashes = 1
SPECIFICATION FairSpec
PROPERTY DeadStreamLetGo
CHECK_DEADLOCK FALSE
